---- MODULE Spec2Model ----
(***************************************************************************)
(* A model of the rlox tree-walking interpreter (src/src/interpreter.rs,   *)
(* src/src/environement.rs, src/src/token.rs).                             *)
(*                                                                         *)
(* The recursive visitor is modelled as a stack machine: `stack` is the    *)
(* Rust call stack (one frame per execute/evaluate call, with the position *)
(* inside the visit_* method in `pc` and its locals in the frame), `ret`   *)
(* is the Result the most recently finished call returned, `heap` holds    *)
(* the Rc<RefCell<Environment>> objects and `environment` is the           *)
(* interpreter's handle to the current one.                                *)
(***************************************************************************)
EXTENDS Integers, Sequences, FiniteSets, TLC

\* ------------------------------------------------------------------ bounds

\* Number literals of the generated programs are 0..MaxNum.
MaxNum == 2
\* Finite numbers whose numerator is beyond MaxAbs are outside the model: a
\* step that would produce one is not taken.
MaxAbs == 6
\* Deepest nesting of Block statements in the generated programs.
MaxNest == 2
\* A While frame stops being modelled after MaxIter executions of its body.
MaxIter == 3
\* Longest source, in characters, of the sources that are generated.
MaxSource == 4
\* Longest token sequence, without its EOF, of those that are generated.
MaxTokens == 4
\* The steps the methods of the parser take for a token, at most.
StepsPerToken == 14

\* ------------------------------------------------------------------ values
\* token.rs LiteralKind: String(String) | Number(f64) | Bool(bool) | Nil.

NilV == [kind |-> "Nil"]
BoolV(b) == [kind |-> "Bool", b |-> b]
StringV(s) == [kind |-> "String", s |-> s]

\* An f64 is modelled exactly on the values n/d with d in {1, 2} (which f64
\* represents exactly), the two zeros (0/1 is +0.0, 0/-1 is -0.0), the two
\* infinities (1/0, -1/0) and NaN (0/0).
NumberV(n, d) == [kind |-> "Number", n |-> n, d |-> d]
Num(n) == NumberV(n, 1)
NaN == NumberV(0, 0)

Abs(x) == IF x < 0 THEN -x ELSE x

RECURSIVE Gcd(_, _)
Gcd(a, b) == IF b = 0 THEN a ELSE Gcd(b, a % b)

IsNaN(x) == x.n = 0 /\ x.d = 0
IsInf(x) == x.n # 0 /\ x.d = 0
IsZero(x) == x.n = 0 /\ x.d # 0
IsNeg(x) == x.n < 0 \/ (x.n = 0 /\ x.d < 0)

\* The f64 nearest to n/d (d # 0, n # 0), in lowest terms with d > 0.
Ratio(n, d) ==
    LET s == IF d < 0 THEN -1 ELSE 1
        g == Gcd(Abs(n), Abs(d))
    IN  NumberV((s * n) \div g, (s * d) \div g)

SignedZero(neg) == NumberV(0, IF neg THEN -1 ELSE 1)
SignedInf(neg) == NumberV(IF neg THEN -1 ELSE 1, 0)

\* The values the model represents; an arithmetic result outside them is not
\* modelled (the step producing it is disabled).
Representable(x) == x.d = 0 \/ (Abs(x.n) <= MaxAbs /\ Abs(x.d) \in {1, 2})

\* f64 negation (visit_unary, `-number`).
f64_neg(x) ==
    IF IsNaN(x) THEN x
    ELSE IF IsZero(x) THEN NumberV(0, -x.d)
    ELSE NumberV(-x.n, x.d)

\* f64 addition (visit_binary, `left + right`), IEEE-754 round to nearest.
f64_add(a, b) ==
    IF IsNaN(a) \/ IsNaN(b) THEN NaN
    ELSE IF IsInf(a) /\ IsInf(b) THEN (IF a.n = b.n THEN a ELSE NaN)
    ELSE IF IsInf(a) THEN a
    ELSE IF IsInf(b) THEN b
    ELSE IF IsZero(a) /\ IsZero(b) THEN SignedZero(IsNeg(a) /\ IsNeg(b))
    ELSE IF IsZero(a) THEN b
    ELSE IF IsZero(b) THEN a
    ELSE LET n == a.n * b.d + b.n * a.d
         IN  IF n = 0 THEN SignedZero(FALSE) ELSE Ratio(n, a.d * b.d)

\* f64 subtraction (visit_binary, `left - right`).
f64_sub(a, b) == f64_add(a, f64_neg(b))

\* f64 multiplication (visit_binary, `left * right`).
f64_mul(a, b) ==
    LET neg == IsNeg(a) # IsNeg(b)
    IN  IF IsNaN(a) \/ IsNaN(b) THEN NaN
        ELSE IF (IsInf(a) /\ IsZero(b)) \/ (IsZero(a) /\ IsInf(b)) THEN NaN
        ELSE IF IsInf(a) \/ IsInf(b) THEN SignedInf(neg)
        ELSE IF IsZero(a) \/ IsZero(b) THEN SignedZero(neg)
        ELSE Ratio(a.n * b.n, a.d * b.d)

\* f64 division (visit_binary, `left / right`): no error on a zero divisor.
f64_div(a, b) ==
    LET neg == IsNeg(a) # IsNeg(b)
    IN  IF IsNaN(a) \/ IsNaN(b) THEN NaN
        ELSE IF (IsInf(a) /\ IsInf(b)) \/ (IsZero(a) /\ IsZero(b)) THEN NaN
        ELSE IF IsInf(a) \/ IsZero(b) THEN SignedInf(neg)
        ELSE IF IsInf(b) \/ IsZero(a) THEN SignedZero(neg)
        ELSE Ratio(a.n * b.d, a.d * b.n)

\* f64 `<` : false when either side is NaN; -0.0 and +0.0 compare equal.
f64_lt(a, b) ==
    /\ ~IsNaN(a)
    /\ ~IsNaN(b)
    /\ IF IsInf(a) \/ IsInf(b)
       THEN \/ (IsInf(a) /\ a.n < 0 /\ ~(IsInf(b) /\ b.n < 0))
            \/ (IsInf(b) /\ b.n > 0 /\ ~(IsInf(a) /\ a.n > 0))
       ELSE a.n * Abs(b.d) < b.n * Abs(a.d)

\* f64 `==` (PartialEq for f64): NaN differs from everything, itself included.
f64_eq(a, b) == ~IsNaN(a) /\ ~IsNaN(b) /\ ~f64_lt(a, b) /\ ~f64_lt(b, a)

\* ------------------------------------------------------------------ syntax
\* token.rs Token {kind, lexeme, literal, line}; the literal of an operator or
\* identifier token is Nil and is left out.

Tok(kind, lexeme) == [kind |-> kind, lexeme |-> lexeme, line |-> 1]
Ident(name) == Tok("Identifier", name)

\* expr.rs Expr variants the interpreter implements.
Literal(v) == [type |-> "Literal", value |-> v]
Variable(name) == [type |-> "Variable", name |-> Ident(name)]
Assignment(name, e) == [type |-> "Assignment", name |-> Ident(name), value |-> e]
Binary(l, op, r) == [type |-> "Binary", left |-> l, operator |-> op, right |-> r]
Logical(l, op, r) == [type |-> "Logical", left |-> l, operator |-> op, right |-> r]
Unary(op, r) == [type |-> "Unary", operator |-> op, right |-> r]
Grouping(e) == [type |-> "Grouping", expr |-> e]

\* Stmt variants, as parser.rs builds them and interpreter.rs reads them.  An
\* absent else_branch (None) is the empty sequence, Some(s) is <<s>>.
ExpressionS(e) == [type |-> "Expression", expression |-> e]
PrintS(e) == [type |-> "Print", expression |-> e]
VarS(name, e) == [type |-> "Var", name |-> Ident(name), initializer |-> e]
BlockS(ss) == [type |-> "Block", statements |-> ss]
IfS(c, t, e) == [type |-> "If", condition |-> c, then_branch |-> t, else_branch |-> e]
WhileS(c, b) == [type |-> "While", condition |-> c, body |-> b]

\* ------------------------------------------------------------------ results
\* Result<LiteralKind, Exit> and Result<(), Exit>; Ok(()) carries NilV.  The
\* only Exit the interpreter ever constructs is Exit::RuntimeError.

Ok(v) == [tag |-> "Ok", value |-> v]
Err == [tag |-> "Err", value |-> NilV]
NoRet == [tag |-> "None", value |-> NilV]

\* lib.rs report: one line on stderr.
report(line, message) == "[line " \o ToString(line) \o "] Error: " \o message

\* f64's Display, as num.to_string() gives it.
f64_to_string(x) ==
    IF IsNaN(x) THEN "NaN"
    ELSE IF IsInf(x) THEN (IF x.n < 0 THEN "-inf" ELSE "inf")
    ELSE IF IsZero(x) THEN (IF x.d < 0 THEN "-0" ELSE "0")
    ELSE IF x.d = 1 THEN ToString(x.n)
    ELSE (IF x.n < 0 THEN "-" ELSE "") \o ToString(Abs(x.n) \div 2) \o ".5"

EndsWith(text, suffix) ==
    /\ Len(text) >= Len(suffix)
    /\ SubSeq(text, Len(text) - Len(suffix) + 1, Len(text)) = suffix

\* Interpreter::stringify.
stringify(literal) ==
    IF literal.kind = "Nil" THEN "nil"
    ELSE IF literal.kind = "Number"
    THEN LET text == f64_to_string(literal)
         IN  IF EndsWith(text, ".0") THEN SubSeq(text, 1, Len(text) - 2) ELSE text
    ELSE IF literal.kind = "String" THEN literal.s
    ELSE (IF literal.b THEN "true" ELSE "false")

\* is_truthy with the number 0 and the empty string false as well.
is_truthy_zero_falsy(literal) ==
    IF literal.kind = "Bool" THEN literal.b
    ELSE IF literal.kind = "Nil" THEN FALSE
    ELSE IF literal.kind = "Number" THEN ~IsZero(literal)
    ELSE literal.s # ""

\* Interpreter::is_truthy.
is_truthy(literal) ==
    IF literal.kind = "Bool" THEN literal.b
    ELSE IF literal.kind = "Nil" THEN FALSE
    ELSE TRUE

\* is_equal with `||` for `&&` in its first test.
is_equal_nil_any(a, b) ==
    IF a.kind = "Nil" \/ b.kind = "Nil" THEN TRUE
    ELSE IF a.kind = "Number" /\ b.kind = "Number" THEN f64_eq(a, b)
    ELSE IF a.kind = "String" /\ b.kind = "String" THEN a.s = b.s
    ELSE IF a.kind = "Bool" /\ b.kind = "Bool" THEN a.b = b.b
    ELSE FALSE

\* Interpreter::is_equal.
is_equal(a, b) ==
    IF a.kind = "Nil" /\ b.kind = "Nil" THEN TRUE
    ELSE IF a.kind = "Nil" THEN FALSE
    ELSE IF a.kind = "Number" /\ b.kind = "Number" THEN f64_eq(a, b)
    ELSE IF a.kind = "String" /\ b.kind = "String" THEN a.s = b.s
    ELSE IF a.kind = "Bool" /\ b.kind = "Bool" THEN a.b = b.b
    ELSE FALSE

\* ------------------------------------------------------------------ environment
\* environement.rs.  The heap maps the address of each live
\* Rc<RefCell<Environment>> to its contents; `enclosing` is an address, None
\* is 0.  `values` is the HashMap, a function from the bound names.

None == 0
EmptyMap == [x \in {} |-> NilV]

\* Environment::new.
new == [values |-> EmptyMap, enclosing |-> None]

\* new_with_enclosing that drops its argument.
new_with_enclosing_detached(enclosing) == [values |-> EmptyMap, enclosing |-> None]

\* Environment::new_with_enclosing.
new_with_enclosing(enclosing) == [values |-> EmptyMap, enclosing |-> enclosing]

\* Environment::define (HashMap::insert: adds or overwrites).
define(env, name, value) == [env EXCEPT !.values = (name :> value) @@ @]

\* get that asks the enclosing scope before its own.
RECURSIVE get_outermost(_, _, _)
get_outermost(h, id, name) ==
    LET outer == IF h[id].enclosing # None
                 THEN get_outermost(h, h[id].enclosing, name)
                 ELSE [res |-> Err, report |-> <<>>]
    IN  IF outer.res.tag = "Ok" THEN outer
        ELSE IF name.lexeme \in DOMAIN h[id].values
        THEN [res |-> Ok(h[id].values[name.lexeme]), report |-> <<>>]
        ELSE [res |-> Err,
              report |-> <<report(name.line, "Undefined variable '" \o name.lexeme \o "'.")>>]

\* Environment::get on the environment at address id.
RECURSIVE get(_, _, _)
get(h, id, name) ==
    IF name.lexeme \in DOMAIN h[id].values
    THEN [res |-> Ok(h[id].values[name.lexeme]), report |-> <<>>]
    ELSE IF h[id].enclosing # None
    THEN get(h, h[id].enclosing, name)
    ELSE [res |-> Err,
          report |-> <<report(name.line, "Undefined variable '" \o name.lexeme \o "'.")>>]

\* assign without the contains_key test: it inserts like define.
assign_insert(h, id, name, value) ==
    [res |-> Ok(NilV), report |-> <<>>,
     heap |-> [h EXCEPT ![id].values = (name.lexeme :> value) @@ @],
     written |-> <<<<id, name.lexeme>>>>]

\* Environment::assign on the environment at address id; `heap` is the heap
\* afterwards.
RECURSIVE assign(_, _, _, _)
assign(h, id, name, value) ==
    IF name.lexeme \in DOMAIN h[id].values
    THEN [res |-> Ok(NilV), report |-> <<>>,
          heap |-> [h EXCEPT ![id].values = (name.lexeme :> value) @@ @],
          written |-> <<<<id, name.lexeme>>>>]
    ELSE IF h[id].enclosing # None
    THEN assign(h, h[id].enclosing, name, value)
    ELSE [res |-> Err,
          report |-> <<report(name.line, "Undefined variable '" \o name.lexeme \o "'.")>>,
          heap |-> h, written |-> <<>>]

\* Rc: the first address not in use, for Rc::new.
Fresh(h) == CHOOSE id \in 1..(Cardinality(DOMAIN h) + 1) : id \notin DOMAIN h

\* Rc: the addresses reachable from the address id through `enclosing`.
RECURSIVE Chain(_, _)
Chain(h, id) == IF id = None THEN <<>> ELSE <<id>> \o Chain(h, h[id].enclosing)

Range(s) == {s[i] : i \in DOMAIN s}

\* Rc drop: an environment no handle reaches is freed.  `roots` are the
\* handles held (the interpreter's field and the `previous` locals).
Collect(h, roots) ==
    LET live == UNION {Range(Chain(h, r)) : r \in roots}
    IN  [id \in live |-> h[id]]

\* ------------------------------------------------------------------ operators

BothNumbers(left, right) == left.kind = "Number" /\ right.kind = "Number"

OperandsError(operator) ==
    [res |-> Err, report |-> <<report(operator.line, "Operands must be numbers.")>>]

\* The match of visit_binary with a `+` that concatenates when only one
\* operand is a string.
binary_op_lenient(operator, left, right) ==
    IF operator.kind = "Plus" /\ (left.kind = "String" \/ right.kind = "String")
    THEN [res |-> Ok(StringV(stringify(left) \o stringify(right))), report |-> <<>>]
    ELSE IF operator.kind \in {"BangEqual", "EqualEqual"}
    THEN [res |-> Ok(BoolV((operator.kind = "EqualEqual") = is_equal(left, right))),
          report |-> <<>>]
    ELSE IF BothNumbers(left, right)
    THEN [res |-> Ok(CASE operator.kind = "Minus" -> f64_sub(left, right)
                       [] operator.kind = "Slash" -> f64_div(left, right)
                       [] operator.kind = "Star" -> f64_mul(left, right)
                       [] operator.kind = "Plus" -> f64_add(left, right)
                       [] operator.kind = "Greater" -> BoolV(f64_lt(right, left))
                       [] operator.kind = "GreaterEqual" ->
                            BoolV(f64_lt(right, left) \/ f64_eq(left, right))
                       [] operator.kind = "Less" -> BoolV(f64_lt(left, right))
                       [] operator.kind = "LessEqual" ->
                            BoolV(f64_lt(left, right) \/ f64_eq(left, right))),
          report |-> <<>>]
    ELSE IF operator.kind = "Plus"
    THEN [res |-> Err,
          report |-> <<report(operator.line,
                              "Operands must be two numbers or two strings.")>>]
    ELSE OperandsError(operator)

\* Interpreter::visit_binary after both operands are evaluated: the match on
\* expr.operator.kind.  `report` is what it writes to stderr.
binary_op(operator, left, right) ==
    CASE operator.kind = "Minus" ->
            IF BothNumbers(left, right)
            THEN [res |-> Ok(f64_sub(left, right)), report |-> <<>>]
            ELSE OperandsError(operator)
      [] operator.kind = "Slash" ->
            IF BothNumbers(left, right)
            THEN [res |-> Ok(f64_div(left, right)), report |-> <<>>]
            ELSE OperandsError(operator)
      [] operator.kind = "Star" ->
            IF BothNumbers(left, right)
            THEN [res |-> Ok(f64_mul(left, right)), report |-> <<>>]
            ELSE OperandsError(operator)
      [] operator.kind = "Plus" ->
            IF BothNumbers(left, right)
            THEN [res |-> Ok(f64_add(left, right)), report |-> <<>>]
            ELSE IF left.kind = "String" /\ right.kind = "String"
            THEN [res |-> Ok(StringV(left.s \o right.s)), report |-> <<>>]
            ELSE [res |-> Err,
                  report |-> <<report(operator.line,
                                      "Operands must be two numbers or two strings.")>>]
      [] operator.kind = "Greater" ->
            IF BothNumbers(left, right)
            THEN [res |-> Ok(BoolV(f64_lt(right, left))), report |-> <<>>]
            ELSE OperandsError(operator)
      [] operator.kind = "GreaterEqual" ->
            IF BothNumbers(left, right)
            THEN [res |-> Ok(BoolV(f64_lt(right, left) \/ f64_eq(left, right))),
                  report |-> <<>>]
            ELSE OperandsError(operator)
      [] operator.kind = "Less" ->
            IF BothNumbers(left, right)
            THEN [res |-> Ok(BoolV(f64_lt(left, right))), report |-> <<>>]
            ELSE OperandsError(operator)
      [] operator.kind = "LessEqual" ->
            IF BothNumbers(left, right)
            THEN [res |-> Ok(BoolV(f64_lt(left, right) \/ f64_eq(left, right))),
                  report |-> <<>>]
            ELSE OperandsError(operator)
      [] operator.kind = "BangEqual" ->
            [res |-> Ok(BoolV(~is_equal(left, right))), report |-> <<>>]
      [] operator.kind = "EqualEqual" ->
            [res |-> Ok(BoolV(is_equal(left, right))), report |-> <<>>]

\* Interpreter::visit_unary after the operand is evaluated.
unary_op(operator, right) ==
    CASE operator.kind = "Minus" ->
            IF right.kind = "Number"
            THEN [res |-> Ok(f64_neg(right)), report |-> <<>>]
            ELSE [res |-> Err,
                  report |-> <<report(operator.line, "Operand must be a number.")>>]
      [] operator.kind = "Bang" ->
            [res |-> Ok(BoolV(~is_truthy(right))), report |-> <<>>]

\* A result the model represents (see Representable).
InModel(res) == res.value.kind = "Number" => Representable(res.value)

\* ------------------------------------------------------------------ state

VARIABLES
    statements,   \* the argument of interpret: the program
    index,        \* interpret: how many statements its loop has taken
    has_error,    \* interpret: its local flag
    result,       \* interpret: "running", then the Result it returns
    stack,        \* the call stack below interpret: execute/evaluate frames
    ret,          \* the Result of the call that returned last
    heap,         \* address -> Environment, the live Rc<RefCell<Environment>>
    environment,  \* Interpreter.environment: the address of the current one
    output,       \* stdout, one entry per println!
    errors,       \* stderr, one entry per report
    log,          \* history: every entry to and exit from a frame
    writes,       \* history: <<address, name>> of every binding assign overwrote
    scanner,      \* main's Scanner (scanner.rs), <<>> while there is none
    parser,       \* main's Parser (parser.rs) with the locals of parse, or <<>>
    process       \* main: the command, its position, stdout and the exit code

progVars == <<statements, index, has_error, result>>
memVars == <<heap, environment, writes>>
ioVars == <<output, errors>>
frontVars == <<scanner, parser, process>>
interpreterVars ==
    <<statements, index, has_error, result, stack, ret, heap, environment, log,
      writes>>
vars == <<statements, index, has_error, result, stack, ret, heap, environment,
          output, errors, log, writes, scanner, parser, process>>

Top == stack[Len(stack)]

\* A frame of execute(stmt) / evaluate(expr) on `node`, entered now.  pc is the
\* position in the visit_* method; `right` is visit_binary's local, `previous`
\* is execute_block's, i counts the statements try_for_each has taken (in a
\* While frame: the body executions).  log0 is history: where the log has the
\* entry to this frame.
NewFrame(node) ==
    [node |-> node, pc |-> 0, right |-> NilV, previous |-> None, i |-> 0,
     log0 |-> Len(log) + 1]

\* History: what the log keeps of one entry to or exit from a frame, with the
\* memory, stdout and stderr as the step leaves them.
Event(ev, depth, node, res, from) ==
    [ev |-> ev, depth |-> depth, node |-> node, res |-> res, from |-> from,
     env |-> environment', heap |-> heap', w |-> Len(writes'),
     out |-> output', errs |-> errors']

\* The running method, left as `frame`, calls execute/evaluate on node.
Call(frame, node) ==
    /\ stack' = Append([stack EXCEPT ![Len(stack)] = frame], NewFrame(node))
    /\ ret' = NoRet
    /\ log' = Append(log, Event("enter", Len(stack) + 1, node, NoRet, Len(log) + 1))

\* The running method returns res to its caller.
Return(res) ==
    /\ stack' = SubSeq(stack, 1, Len(stack) - 1)
    /\ ret' = res
    /\ log' = Append(log, Event("exit", Len(stack), Top.node, res, Top.log0))

\* The running method is the visit_* method of this node type.
In(type) == stack # <<>> /\ Top.node.type = type

\* ------------------------------------------------------------------ expressions

\* Interpreter::visit_literal.
visit_literal ==
    /\ UNCHANGED frontVars
    /\ In("Literal")
    /\ UNCHANGED <<progVars, memVars, ioVars>>
    /\ Return(Ok(Top.node.value))

\* Interpreter::visit_grouping.
visit_grouping ==
    /\ UNCHANGED frontVars
    /\ In("Grouping")
    /\ UNCHANGED <<progVars, memVars, ioVars>>
    /\ \/ /\ Top.pc = 0
          /\ Call([Top EXCEPT !.pc = 1], Top.node.expr)
       \/ /\ Top.pc = 1
          /\ Return(ret)

\* Interpreter::visit_variable.
visit_variable ==
    /\ UNCHANGED frontVars
    /\ In("Variable")
    /\ UNCHANGED <<progVars, memVars, output>>
    /\ LET r == get(heap, environment, Top.node.name)
       IN  /\ errors' = errors \o r.report
           /\ Return(r.res)

\* Interpreter::visit_assignment.
visit_assignment ==
    /\ UNCHANGED frontVars
    /\ In("Assignment")
    /\ \/ /\ Top.pc = 0
          /\ UNCHANGED <<progVars, memVars, ioVars>>
          /\ Call([Top EXCEPT !.pc = 1], Top.node.value)
       \/ /\ Top.pc = 1
          /\ ret.tag = "Err"
          /\ UNCHANGED <<progVars, memVars, ioVars>>
          /\ Return(Err)
       \/ /\ Top.pc = 1
          /\ ret.tag = "Ok"
          /\ UNCHANGED <<progVars, environment, output>>
          /\ LET a == assign(heap, environment, Top.node.name, ret.value)
             IN  /\ heap' = a.heap
                 /\ writes' = writes \o a.written
                 /\ errors' = errors \o a.report
                 /\ Return(IF a.res.tag = "Ok" THEN Ok(ret.value) ELSE Err)

\* visit_binary with the operands evaluated left then right.
visit_binary_left_first ==
    /\ UNCHANGED frontVars
    /\ In("Binary")
    /\ \/ /\ Top.pc = 0
          /\ UNCHANGED <<progVars, memVars, ioVars>>
          /\ Call([Top EXCEPT !.pc = 1], Top.node.left)
       \/ /\ Top.pc \in {1, 2}
          /\ ret.tag = "Err"
          /\ UNCHANGED <<progVars, memVars, ioVars>>
          /\ Return(Err)
       \/ /\ Top.pc = 1
          /\ ret.tag = "Ok"
          /\ UNCHANGED <<progVars, memVars, ioVars>>
          /\ Call([Top EXCEPT !.pc = 2, !.right = ret.value], Top.node.right)
       \/ /\ Top.pc = 2
          /\ ret.tag = "Ok"
          /\ UNCHANGED <<progVars, memVars, output>>
          /\ LET r == binary_op(Top.node.operator, Top.right, ret.value)
             IN  /\ InModel(r.res)
                 /\ errors' = errors \o r.report
                 /\ Return(r.res)

\* visit_binary that checks the kind of the right operand, for the operators
\* on numbers alone, before it evaluates the left operand.
visit_binary_check_first ==
    /\ UNCHANGED frontVars
    /\ In("Binary")
    /\ \/ /\ Top.pc = 0
          /\ UNCHANGED <<progVars, memVars, ioVars>>
          /\ Call([Top EXCEPT !.pc = 1], Top.node.right)
       \/ /\ Top.pc \in {1, 2}
          /\ ret.tag = "Err"
          /\ UNCHANGED <<progVars, memVars, ioVars>>
          /\ Return(Err)
       \/ /\ Top.pc = 1
          /\ ret.tag = "Ok"
          /\ Top.node.operator.kind \in {"Minus", "Slash", "Star"}
          /\ ret.value.kind # "Number"
          /\ UNCHANGED <<progVars, memVars, output>>
          /\ errors' = errors \o OperandsError(Top.node.operator).report
          /\ Return(Err)
       \/ /\ Top.pc = 1
          /\ ret.tag = "Ok"
          /\ ~(/\ Top.node.operator.kind \in {"Minus", "Slash", "Star"}
               /\ ret.value.kind # "Number")
          /\ UNCHANGED <<progVars, memVars, ioVars>>
          /\ Call([Top EXCEPT !.pc = 2, !.right = ret.value], Top.node.left)
       \/ /\ Top.pc = 2
          /\ ret.tag = "Ok"
          /\ UNCHANGED <<progVars, memVars, output>>
          /\ LET r == binary_op(Top.node.operator, ret.value, Top.right)
             IN  /\ InModel(r.res)
                 /\ errors' = errors \o r.report
                 /\ Return(r.res)

\* Interpreter::visit_binary.
visit_binary ==
    /\ UNCHANGED frontVars
    /\ In("Binary")
    /\ \/ /\ Top.pc = 0
          /\ UNCHANGED <<progVars, memVars, ioVars>>
          /\ Call([Top EXCEPT !.pc = 1], Top.node.right)
       \/ /\ Top.pc \in {1, 2}
          /\ ret.tag = "Err"
          /\ UNCHANGED <<progVars, memVars, ioVars>>
          /\ Return(Err)
       \/ /\ Top.pc = 1
          /\ ret.tag = "Ok"
          /\ UNCHANGED <<progVars, memVars, ioVars>>
          /\ Call([Top EXCEPT !.pc = 2, !.right = ret.value], Top.node.left)
       \/ /\ Top.pc = 2
          /\ ret.tag = "Ok"
          /\ UNCHANGED <<progVars, memVars, output>>
          /\ LET r == binary_op(Top.node.operator, ret.value, Top.right)
             IN  /\ InModel(r.res)
                 /\ errors' = errors \o r.report
                 /\ Return(r.res)

\* visit_logical with the short-circuit result coerced to a Bool.
visit_logical_coerced ==
    /\ UNCHANGED frontVars
    /\ In("Logical")
    /\ UNCHANGED <<progVars, memVars, ioVars>>
    /\ \/ /\ Top.pc = 0
          /\ Call([Top EXCEPT !.pc = 1], Top.node.left)
       \/ /\ Top.pc = 1
          /\ ret.tag = "Err"
          /\ Return(Err)
       \/ /\ Top.pc = 1
          /\ ret.tag = "Ok"
          /\ IF Top.node.operator.kind = "Or"
             THEN is_truthy(ret.value)
             ELSE ~is_truthy(ret.value)
          /\ Return(Ok(BoolV(is_truthy(ret.value))))
       \/ /\ Top.pc = 1
          /\ ret.tag = "Ok"
          /\ IF Top.node.operator.kind = "Or"
             THEN ~is_truthy(ret.value)
             ELSE is_truthy(ret.value)
          /\ Call([Top EXCEPT !.pc = 2], Top.node.right)
       \/ /\ Top.pc = 2
          /\ Return(ret)

\* Interpreter::visit_logical.
visit_logical ==
    /\ UNCHANGED frontVars
    /\ In("Logical")
    /\ UNCHANGED <<progVars, memVars, ioVars>>
    /\ \/ /\ Top.pc = 0
          /\ Call([Top EXCEPT !.pc = 1], Top.node.left)
       \/ /\ Top.pc = 1
          /\ ret.tag = "Err"
          /\ Return(Err)
       \/ /\ Top.pc = 1
          /\ ret.tag = "Ok"
          /\ IF Top.node.operator.kind = "Or"
             THEN is_truthy(ret.value)
             ELSE ~is_truthy(ret.value)
          /\ Return(Ok(ret.value))
       \/ /\ Top.pc = 1
          /\ ret.tag = "Ok"
          /\ IF Top.node.operator.kind = "Or"
             THEN ~is_truthy(ret.value)
             ELSE is_truthy(ret.value)
          /\ Call([Top EXCEPT !.pc = 2], Top.node.right)
       \/ /\ Top.pc = 2
          /\ Return(ret)

\* Interpreter::visit_unary.
visit_unary ==
    /\ UNCHANGED frontVars
    /\ In("Unary")
    /\ \/ /\ Top.pc = 0
          /\ UNCHANGED <<progVars, memVars, ioVars>>
          /\ Call([Top EXCEPT !.pc = 1], Top.node.right)
       \/ /\ Top.pc = 1
          /\ ret.tag = "Err"
          /\ UNCHANGED <<progVars, memVars, ioVars>>
          /\ Return(Err)
       \/ /\ Top.pc = 1
          /\ ret.tag = "Ok"
          /\ UNCHANGED <<progVars, memVars, output>>
          /\ LET r == unary_op(Top.node.operator, ret.value)
             IN  /\ errors' = errors \o r.report
                 /\ Return(r.res)

\* ------------------------------------------------------------------ statements

\* Interpreter::visit_expression.
visit_expression ==
    /\ UNCHANGED frontVars
    /\ In("Expression")
    /\ UNCHANGED <<progVars, memVars, ioVars>>
    /\ \/ /\ Top.pc = 0
          /\ Call([Top EXCEPT !.pc = 1], Top.node.expression)
       \/ /\ Top.pc = 1
          /\ ret.tag = "Err"
          /\ Return(Err)
       \/ /\ Top.pc = 1
          /\ ret.tag = "Ok"
          /\ Return(Ok(NilV))

\* Interpreter::visit_print.
visit_print ==
    /\ UNCHANGED frontVars
    /\ In("Print")
    /\ \/ /\ Top.pc = 0
          /\ UNCHANGED <<progVars, memVars, ioVars>>
          /\ Call([Top EXCEPT !.pc = 1], Top.node.expression)
       \/ /\ Top.pc = 1
          /\ ret.tag = "Err"
          /\ UNCHANGED <<progVars, memVars, ioVars>>
          /\ Return(Err)
       \/ /\ Top.pc = 1
          /\ ret.tag = "Ok"
          /\ UNCHANGED <<progVars, memVars, errors>>
          /\ output' = Append(output, stringify(ret.value))
          /\ Return(Ok(NilV))

\* visit_var that defines the name, as Nil, before it evaluates the
\* initializer.
visit_var_define_first ==
    /\ UNCHANGED frontVars
    /\ In("Var")
    /\ \/ /\ Top.pc = 0
          /\ UNCHANGED <<progVars, environment, writes, ioVars>>
          /\ heap' = [heap EXCEPT ![environment] =
                          define(@, Top.node.name.lexeme, NilV)]
          /\ Call([Top EXCEPT !.pc = 1], Top.node.initializer)
       \/ /\ Top.pc = 1
          /\ ret.tag = "Err"
          /\ UNCHANGED <<progVars, memVars, ioVars>>
          /\ Return(Err)
       \/ /\ Top.pc = 1
          /\ ret.tag = "Ok"
          /\ UNCHANGED <<progVars, environment, writes, ioVars>>
          /\ heap' = [heap EXCEPT ![environment] =
                          define(@, Top.node.name.lexeme, ret.value)]
          /\ Return(Ok(NilV))

\* Interpreter::visit_var: both arms of its `if let` evaluate the initializer.
visit_var ==
    /\ UNCHANGED frontVars
    /\ In("Var")
    /\ \/ /\ Top.pc = 0
          /\ UNCHANGED <<progVars, memVars, ioVars>>
          /\ Call([Top EXCEPT !.pc = 1], Top.node.initializer)
       \/ /\ Top.pc = 1
          /\ ret.tag = "Err"
          /\ UNCHANGED <<progVars, memVars, ioVars>>
          /\ Return(Err)
       \/ /\ Top.pc = 1
          /\ ret.tag = "Ok"
          /\ UNCHANGED <<progVars, environment, writes, ioVars>>
          /\ heap' = [heap EXCEPT ![environment] =
                          define(@, Top.node.name.lexeme, ret.value)]
          /\ Return(Ok(NilV))

\* The `previous` handles the frames below the running one hold.
HeldBelow == {stack[k].previous : k \in 1..(Len(stack) - 1)} \ {None}

\* execute_block that runs the statements in the environment that is current,
\* without swapping the new one in.
execute_block_same_scope(stmts, env) ==
    \/ /\ Top.pc = 0
       /\ stack' = [stack EXCEPT ![Len(stack)] =
                        [@ EXCEPT !.pc = 1, !.previous = environment]]
       /\ UNCHANGED <<progVars, memVars, ioVars, ret, log>>
    \/ /\ Top.pc = 1
       /\ ret.tag # "Err"
       /\ Top.i < Len(stmts)
       /\ UNCHANGED <<progVars, memVars, ioVars>>
       /\ Call([Top EXCEPT !.i = @ + 1], stmts[Top.i + 1])
    \/ /\ Top.pc = 1
       /\ ~(ret.tag # "Err" /\ Top.i < Len(stmts))
       /\ UNCHANGED <<progVars, writes, ioVars>>
       /\ environment' = Top.previous
       /\ heap' = Collect(heap, {Top.previous} \cup HeldBelow)
       /\ Return(IF ret.tag = "Err" THEN Err ELSE Ok(NilV))

\* execute_block with the result propagated by `?` before `previous` is put
\* back: a failing statement leaves the block's environment current.
execute_block_early_return(stmts, env) ==
    \/ /\ Top.pc = 0
       /\ LET id == Fresh(heap)
          IN  /\ heap' = (id :> env) @@ heap
              /\ environment' = id
       /\ stack' = [stack EXCEPT ![Len(stack)] =
                        [@ EXCEPT !.pc = 1, !.previous = environment]]
       /\ UNCHANGED <<progVars, writes, ioVars, ret, log>>
    \/ /\ Top.pc = 1
       /\ ret.tag # "Err"
       /\ Top.i < Len(stmts)
       /\ UNCHANGED <<progVars, memVars, ioVars>>
       /\ Call([Top EXCEPT !.i = @ + 1], stmts[Top.i + 1])
    \/ /\ Top.pc = 1
       /\ ret.tag = "Err"
       /\ UNCHANGED <<progVars, memVars, ioVars>>
       /\ Return(Err)
    \/ /\ Top.pc = 1
       /\ ret.tag # "Err"
       /\ Top.i = Len(stmts)
       /\ UNCHANGED <<progVars, writes, ioVars>>
       /\ environment' = Top.previous
       /\ heap' = Collect(heap, {Top.previous} \cup HeldBelow)
       /\ Return(Ok(NilV))

\* Interpreter::execute_block(stmts, env): swap in a new Rc holding env, run
\* the statements until one fails, put `previous` back, return the result.
\* Putting `previous` back drops the block's Rc.
execute_block(stmts, env) ==
    \/ /\ Top.pc = 0
       /\ LET id == Fresh(heap)
          IN  /\ heap' = (id :> env) @@ heap
              /\ environment' = id
       /\ stack' = [stack EXCEPT ![Len(stack)] =
                        [@ EXCEPT !.pc = 1, !.previous = environment]]
       /\ UNCHANGED <<progVars, writes, ioVars, ret, log>>
    \/ /\ Top.pc = 1
       /\ ret.tag # "Err"
       /\ Top.i < Len(stmts)
       /\ UNCHANGED <<progVars, memVars, ioVars>>
       /\ Call([Top EXCEPT !.i = @ + 1], stmts[Top.i + 1])
    \/ /\ Top.pc = 1
       /\ ~(ret.tag # "Err" /\ Top.i < Len(stmts))
       /\ UNCHANGED <<progVars, writes, ioVars>>
       /\ environment' = Top.previous
       /\ heap' = Collect(heap, {Top.previous} \cup HeldBelow)
       /\ Return(IF ret.tag = "Err" THEN Err ELSE Ok(NilV))

\* Interpreter::visit_block.
visit_block ==
    /\ UNCHANGED frontVars
    /\ In("Block")
    /\ execute_block(Top.node.statements, new_with_enclosing(environment))

\* Interpreter::visit_if.
visit_if ==
    /\ UNCHANGED frontVars
    /\ In("If")
    /\ UNCHANGED <<progVars, memVars, ioVars>>
    /\ \/ /\ Top.pc = 0
          /\ Call([Top EXCEPT !.pc = 1], Top.node.condition)
       \/ /\ Top.pc = 1
          /\ ret.tag = "Err"
          /\ Return(Err)
       \/ /\ Top.pc = 1
          /\ ret.tag = "Ok"
          /\ is_truthy(ret.value)
          /\ Call([Top EXCEPT !.pc = 2], Top.node.then_branch)
       \/ /\ Top.pc = 1
          /\ ret.tag = "Ok"
          /\ ~is_truthy(ret.value)
          /\ Top.node.else_branch # <<>>
          /\ Call([Top EXCEPT !.pc = 2], Top.node.else_branch[1])
       \/ /\ Top.pc = 1
          /\ ret.tag = "Ok"
          /\ ~is_truthy(ret.value)
          /\ Top.node.else_branch = <<>>
          /\ Return(Ok(NilV))
       \/ /\ Top.pc = 2
          /\ Return(IF ret.tag = "Err" THEN Err ELSE Ok(NilV))

\* visit_while as a post-tested loop: the body is executed before the
\* condition is evaluated.
visit_while_body_first ==
    /\ UNCHANGED frontVars
    /\ In("While")
    /\ UNCHANGED <<progVars, memVars, ioVars>>
    /\ \/ /\ Top.pc = 0
          /\ Call([Top EXCEPT !.pc = 2, !.i = @ + 1], Top.node.body)
       \/ /\ Top.pc \in {1, 2}
          /\ ret.tag = "Err"
          /\ Return(Err)
       \/ /\ Top.pc = 1
          /\ ret.tag = "Ok"
          /\ ~is_truthy(ret.value)
          /\ Return(Ok(NilV))
       \/ /\ Top.pc = 1
          /\ ret.tag = "Ok"
          /\ is_truthy(ret.value)
          /\ Top.i < MaxIter
          /\ Call([Top EXCEPT !.pc = 2, !.i = @ + 1], Top.node.body)
       \/ /\ Top.pc = 2
          /\ ret.tag = "Ok"
          /\ Call([Top EXCEPT !.pc = 1], Top.node.condition)

\* Interpreter::visit_while.  pc 0: top of the loop; 1: the condition was
\* evaluated; 2: the body was executed.
visit_while ==
    /\ UNCHANGED frontVars
    /\ In("While")
    /\ UNCHANGED <<progVars, memVars, ioVars>>
    /\ \/ /\ Top.pc = 0
          /\ Call([Top EXCEPT !.pc = 1], Top.node.condition)
       \/ /\ Top.pc \in {1, 2}
          /\ ret.tag = "Err"
          /\ Return(Err)
       \/ /\ Top.pc = 1
          /\ ret.tag = "Ok"
          /\ ~is_truthy(ret.value)
          /\ Return(Ok(NilV))
       \/ /\ Top.pc = 1
          /\ ret.tag = "Ok"
          /\ is_truthy(ret.value)
          /\ Top.i < MaxIter
          /\ Call([Top EXCEPT !.pc = 2, !.i = @ + 1], Top.node.body)
       \/ /\ Top.pc = 2
          /\ ret.tag = "Ok"
          /\ Call([Top EXCEPT !.pc = 1], Top.node.condition)

\* interpret without the `break`: it goes on after a failed statement.
interpret_no_break ==
    /\ UNCHANGED frontVars
    /\ stack = <<>>
    /\ result = "running"
    /\ UNCHANGED <<memVars, ioVars>>
    /\ \/ /\ index < Len(statements)
          /\ has_error' = (has_error \/ ret.tag = "Err")
          /\ index' = index + 1
          /\ stack' = <<NewFrame(statements[index + 1])>>
          /\ ret' = NoRet
          /\ log' = Append(log, Event("enter", 1, statements[index + 1], NoRet,
                                      Len(log) + 1))
          /\ UNCHANGED <<statements, result>>
       \/ /\ index = Len(statements)
          /\ has_error' = (has_error \/ ret.tag = "Err")
          /\ result' = IF has_error' THEN "Err" ELSE "Ok"
          /\ UNCHANGED <<statements, index, stack, ret, log>>

\* Interpreter::interpret: the loop over the statements, then the result.
interpret ==
    /\ UNCHANGED frontVars
    /\ stack = <<>>
    /\ result = "running"
    /\ UNCHANGED <<memVars, ioVars>>
    /\ \/ /\ ret.tag = "Err"
          /\ has_error' = TRUE
          /\ result' = "Err"
          /\ UNCHANGED <<statements, index, stack, ret, log>>
       \/ /\ ret.tag # "Err"
          /\ index < Len(statements)
          /\ index' = index + 1
          /\ stack' = <<NewFrame(statements[index + 1])>>
          /\ ret' = NoRet
          /\ log' = Append(log, Event("enter", 1, statements[index + 1], NoRet,
                                      Len(log) + 1))
          /\ UNCHANGED <<statements, has_error, result>>
       \/ /\ ret.tag # "Err"
          /\ index = Len(statements)
          /\ result' = "Ok"
          /\ UNCHANGED <<statements, index, has_error, stack, ret, log>>

\* ------------------------------------------------------------------ programs
\* The programs interpret is run on: every one is an AST the parser can build.

Minus == Tok("Minus", "-")
Slash == Tok("Slash", "/")
Plus == Tok("Plus", "+")
Less == Tok("Less", "<")
Bang == Tok("Bang", "!")

ArithmeticOps == {Minus, Slash, Tok("Star", "*")}
ComparisonOps == {Tok("Greater", ">"), Tok("GreaterEqual", ">="), Less,
                  Tok("LessEqual", "<=")}
EqualityOps == {Tok("BangEqual", "!="), Tok("EqualEqual", "==")}
BinaryOps == ArithmeticOps \cup {Plus} \cup ComparisonOps \cup EqualityOps
LogicalOps == {Tok("Or", "or"), Tok("And", "and")}

Literals ==
    {NilV, BoolV(TRUE), BoolV(FALSE), StringV(""), StringV("a")}
        \cup {Num(n) : n \in 0..MaxNum}
LiteralExprs == {Literal(v) : v \in Literals}

\* Expressions whose value is NaN, inf, -0.0 and 0.5.
Specials ==
    {Binary(Literal(Num(0)), Slash, Literal(Num(0))),
     Binary(Literal(Num(1)), Slash, Literal(Num(0))),
     Unary(Minus, Literal(Num(0))),
     Binary(Literal(Num(1)), Slash, Literal(Num(2)))}
NumExprs ==
    {Binary(Literal(Num(a)), Slash, Literal(Num(b))) : a, b \in 0..MaxNum}
        \cup {Unary(Minus, Literal(Num(a))) : a \in 0..MaxNum}

\* A failing expression: -"a".
Failing == Unary(Minus, Literal(StringV("a")))

\* print l op r; for every operator and every pair of literal kinds, and for
\* the special numbers.
BinaryPrograms ==
    {<<PrintS(Binary(l, op, r))>> : l \in LiteralExprs, op \in BinaryOps, r \in LiteralExprs}
        \cup {<<PrintS(Binary(l, op, r))>> : l \in NumExprs, op \in BinaryOps, r \in Specials}
        \cup {<<PrintS(Binary(l, op, r))>> : l \in Specials, op \in EqualityOps, r \in LiteralExprs}
        \cup {<<PrintS(Binary(l, op, r))>> : l \in LiteralExprs, op \in EqualityOps, r \in Specials}

\* print op e; with e a literal, a negation, a grouping, a special number.
UnaryPrograms ==
    {<<PrintS(Unary(op, e))>> :
        op \in {Bang, Minus},
        e \in LiteralExprs \cup {Unary(Bang, l) : l \in LiteralExprs}
                \cup {Grouping(l) : l \in LiteralExprs} \cup Specials}

\* Operands with and without side effects and errors; `u` is never declared.
Operands ==
    LiteralExprs \cup
    {Variable("a"), Variable("u"), Failing,
     Assignment("a", Literal(Num(1))), Assignment("u", Literal(Num(1)))}
SideOperands ==
    {Assignment("a", Literal(Num(1))), Assignment("a", Literal(Num(2))),
     Assignment("a", Literal(StringV("a"))), Variable("a"), Variable("u"),
     Grouping(Assignment("a", Literal(Num(1)))), Literal(StringV("a"))}

\* var a = 0; print l op r; print a;
LogicalPrograms ==
    {<<VarS("a", Literal(Num(0))), PrintS(Logical(l, op, r)), PrintS(Variable("a"))>> :
        l \in Operands, op \in LogicalOps, r \in Operands}
SidePrograms ==
    {<<VarS("a", Literal(Num(0))), PrintS(Binary(l, op, r)), PrintS(Variable("a"))>> :
        l \in SideOperands, op \in BinaryOps, r \in SideOperands}

\* Statements nested in blocks: { pre s post } to depth d.
Core ==
    {VarS("a", Literal(Num(1))), VarS("a", Variable("a")),
     ExpressionS(Assignment("a", Literal(Num(2)))), PrintS(Variable("a")),
     ExpressionS(Assignment("b", Literal(Num(2)))),
     ExpressionS(Failing), VarS("b", Literal(NilV))}
Pre ==
    {VarS("a", Literal(Num(1))), ExpressionS(Assignment("a", Literal(Num(2)))),
     VarS("b", Literal(Num(1)))}
Post == {PrintS(Variable("a")), PrintS(Variable("b"))}

RECURSIVE Nested(_)
Nested(d) ==
    IF d = 0 THEN Core
    ELSE Core \cup {BlockS(<<p, s, q>>) : p \in Pre, s \in Nested(d - 1), q \in Post}

ScopePrograms ==
    {<<t, s, PrintS(Variable("a"))>> :
        t \in {VarS("a", Literal(Num(0))), PrintS(Literal(NilV))},
        s \in Nested(MaxNest)}

\* if and while, with every literal as the condition, and a counting loop.
Increment(name) ==
    ExpressionS(Assignment(name, Binary(Variable(name), Plus, Literal(Num(1)))))
FlowPrograms ==
    {<<IfS(c, t, e)>> :
        c \in LiteralExprs \cup {Failing},
        t \in {PrintS(Literal(Num(1))), ExpressionS(Failing)},
        e \in {<<>>, <<PrintS(Literal(Num(2)))>>, <<ExpressionS(Failing)>>}}
    \cup {<<WhileS(c, b)>> :
        c \in LiteralExprs \cup {Failing},
        b \in {PrintS(Literal(Num(1))), ExpressionS(Failing)}}
    \cup {<<VarS("i", Literal(Num(0))),
            WhileS(Binary(Variable("i"), Less, Literal(Num(k))),
                   BlockS(<<PrintS(Variable("i")), Increment("i")>>)),
            PrintS(Variable("i"))>> : k \in 0..MaxNum}

Programs ==
    {<<>>} \cup BinaryPrograms \cup UnaryPrograms \cup LogicalPrograms
        \cup SidePrograms \cup ScopePrograms \cup FlowPrograms

\* ------------------------------------------------------------------ specification

\* Interpreter::new, and interpret entered on one of the programs.
Init ==
    /\ statements \in Programs
    /\ index = 0
    /\ has_error = FALSE
    /\ result = "running"
    /\ stack = <<>>
    /\ ret = NoRet
    /\ heap = (1 :> new)
    /\ environment = 1
    /\ output = <<>>
    /\ errors = <<>>
    /\ log = <<>>
    /\ writes = <<>>
    /\ scanner = <<>>
    /\ parser = <<>>
    /\ process = <<>>

Next ==
    \/ interpret
    \/ visit_literal
    \/ visit_grouping
    \/ visit_variable
    \/ visit_assignment
    \/ visit_binary
    \/ visit_logical
    \/ visit_unary
    \/ visit_expression
    \/ visit_print
    \/ visit_var
    \/ visit_block
    \/ visit_if
    \/ visit_while

Spec == Init /\ [][Next]_vars

\* ------------------------------------------------------------------ scanner
\* scanner.rs.  source is the Vec<char>, here a sequence of one-character
\* strings; start and current are the 0-based indices of the code.  The
\* scanner's tokens carry their literal as Option<String>: <<>> is None, <<s>>
\* is Some(s).  (scanner.rs spells the two parenthesis kinds LeftParanthesis
\* and RightParanthesis; they are the LeftParenthesis and RightParenthesis of
\* token.rs.)

\* source.chars().collect()
Chars(text) == [i \in 1..Len(text) |-> SubSeq(text, i, i)]

\* chars.iter().collect::<String>()
RECURSIVE collect(_)
collect(chars) ==
    IF chars = <<>> THEN "" ELSE Head(chars) \o collect(Tail(chars))

\* Token::new.
Token_new(kind, lexeme, literal, line) ==
    [kind |-> kind, lexeme |-> lexeme, literal |-> literal, line |-> line]

\* token.rs KEYWORDS.
KEYWORDS ==
    [and |-> "And", class |-> "Class", else |-> "Else", false |-> "False",
     for |-> "For", fun |-> "Fun", if |-> "If", nil |-> "Nil", or |-> "Or",
     print |-> "Print", return |-> "Return", super |-> "Super", this |-> "This",
     true |-> "True", var |-> "Var", while |-> "While"]

\* What peek and peek_next return at the end of the source: '\0'.
Nul == "\\0"

is_digit(c) == c \in {"0", "1", "2", "3", "4", "5", "6", "7", "8", "9"}
is_alphabetic(c) ==
    c \in {"a", "b", "c", "d", "e", "f", "g", "h", "i", "j", "k", "l", "m", "n",
           "o", "p", "q", "r", "s", "t", "u", "v", "w", "x", "y", "z"}
is_alphanumeric(c) == is_alphabetic(c) \/ is_digit(c)

\* Scanner::new.
Scanner_new(source) ==
    [source |-> Chars(source), tokens |-> <<>>, start |-> 0, current |-> 0,
     line |-> 1, has_errors |-> FALSE]

\* Scanner::is_at_end, peek, peek_next, advance (the scanner it leaves),
\* add_token.
Scanner_is_at_end(s) == s.current >= Len(s.source)
Scanner_peek(s) == IF Scanner_is_at_end(s) THEN Nul ELSE s.source[s.current + 1]
peek_next(s) ==
    IF s.current + 1 >= Len(s.source) THEN Nul ELSE s.source[s.current + 2]
Scanner_advance(s) == [s EXCEPT !.current = @ + 1]
add_token(s, kind, literal) ==
    [s EXCEPT !.tokens =
        Append(@, Token_new(kind, collect(SubSeq(s.source, s.start + 1, s.current)),
                            literal, s.line))]

\* Scanner::try_match_next: whether it matched, and the scanner it leaves.
try_match_next(s, expected) ==
    IF Scanner_is_at_end(s) \/ s.source[s.current + 1] # expected
    THEN [matched |-> FALSE, scanner |-> s]
    ELSE [matched |-> TRUE, scanner |-> Scanner_advance(s)]

\* The `match self.try_match_next('=')` arms of scan_token.
one_or_two(s, two, one) ==
    LET m == try_match_next(s, "=")
    IN  add_token(m.scanner, IF m.matched THEN two ELSE one, <<>>)

\* The loops of scan_token: over a comment, over the body of a string, over
\* digits, over the rest of an identifier.
RECURSIVE while_comment(_)
while_comment(s) ==
    IF Scanner_peek(s) # "\n" /\ ~Scanner_is_at_end(s)
    THEN while_comment(Scanner_advance(s))
    ELSE s

RECURSIVE while_string(_)
while_string(s) ==
    IF Scanner_peek(s) # "\"" /\ ~Scanner_is_at_end(s)
    THEN while_string(Scanner_advance(
            [s EXCEPT !.line = IF Scanner_peek(s) = "\n" THEN @ + 1 ELSE @]))
    ELSE s

RECURSIVE while_digit(_)
while_digit(s) ==
    IF is_digit(Scanner_peek(s)) THEN while_digit(Scanner_advance(s)) ELSE s

RECURSIVE while_alphanumeric(_)
while_alphanumeric(s) ==
    IF is_alphanumeric(Scanner_peek(s)) \/ Scanner_peek(s) = "_"
    THEN while_alphanumeric(Scanner_advance(s))
    ELSE s

\* The literal text scan_token gives a number: ".0" is added to digits without
\* a point, and a fraction of zeros only becomes "0".
number_literal(chars) ==
    IF \A i \in DOMAIN chars : chars[i] # "."
    THEN collect(chars) \o ".0"
    ELSE LET dot == CHOOSE i \in DOMAIN chars : chars[i] = "."
         IN  IF \A i \in (dot + 1)..Len(chars) : chars[i] = "0"
             THEN collect(SubSeq(chars, 1, dot - 1)) \o ".0"
             ELSE collect(chars)

\* The single-character tokens of scan_token.
Punctuation ==
    [c \in {"(", ")", "{", "}", ",", ".", "-", "+", ";", "*"} |->
        CASE c = "(" -> "LeftParenthesis" [] c = ")" -> "RightParenthesis"
          [] c = "{" -> "LeftBrace" [] c = "}" -> "RightBrace"
          [] c = "," -> "Comma" [] c = "." -> "Dot" [] c = "-" -> "Minus"
          [] c = "+" -> "Plus" [] c = ";" -> "Semicolon" [] c = "*" -> "Star"]

\* The string arm of scan_token.
scan_string(s) ==
    LET t == while_string(s)
    IN  IF Scanner_is_at_end(t)
        THEN [scanner |-> [t EXCEPT !.has_errors = TRUE],
              report |-> <<"[line " \o ToString(t.line)
                              \o "] Error: Unterminated string.">>]
        ELSE LET u == Scanner_advance(t)
             IN  [scanner |->
                    add_token(u, "String",
                              <<collect(SubSeq(u.source, u.start + 2, u.current - 1))>>),
                  report |-> <<>>]

\* The number arm of scan_token.
scan_number(s) ==
    LET t == while_digit(s)
        u == IF Scanner_peek(t) = "." /\ is_digit(peek_next(t))
             THEN while_digit(Scanner_advance(t))
             ELSE t
    IN  add_token(u, "Number",
                  <<number_literal(SubSeq(u.source, u.start + 1, u.current))>>)

\* The identifier arm of scan_token.
scan_identifier(s) ==
    LET t == while_alphanumeric(s)
        lexume == collect(SubSeq(t.source, t.start + 1, t.current))
    IN  IF lexume \in DOMAIN KEYWORDS
        THEN add_token(t, KEYWORDS[lexume], <<>>)
        ELSE add_token(t, "Identifier", <<>>)

\* scan_token with the last arm of its match left out: an unexpected
\* character is skipped without setting has_errors.
scan_token_silent(s0) ==
    LET c == s0.source[s0.current + 1]
        s == Scanner_advance(s0)
        quiet(t) == [scanner |-> t, report |-> <<>>]
    IN  IF c \in DOMAIN Punctuation THEN quiet(add_token(s, Punctuation[c], <<>>))
        ELSE IF c = "!" THEN quiet(one_or_two(s, "BangEqual", "Bang"))
        ELSE IF c = "=" THEN quiet(one_or_two(s, "EqualEqual", "Equal"))
        ELSE IF c = "<" THEN quiet(one_or_two(s, "LessEqual", "Less"))
        ELSE IF c = ">" THEN quiet(one_or_two(s, "GreaterEqual", "Greater"))
        ELSE IF c = "/"
        THEN LET m == try_match_next(s, "/")
             IN  IF m.matched THEN quiet(while_comment(m.scanner))
                 ELSE quiet(add_token(s, "Slash", <<>>))
        ELSE IF c \in {" ", "\r", "\t"} THEN quiet(s)
        ELSE IF c = "\n" THEN quiet([s EXCEPT !.line = @ + 1])
        ELSE IF c = "\"" THEN scan_string(s)
        ELSE IF is_digit(c) THEN quiet(scan_number(s))
        ELSE IF is_alphabetic(c) \/ c = "_" THEN quiet(scan_identifier(s))
        ELSE quiet(s)

\* Scanner::scan_token: the scanner it leaves and what it writes to stderr.
scan_token(s0) ==
    LET c == s0.source[s0.current + 1]
        s == Scanner_advance(s0)
        quiet(t) == [scanner |-> t, report |-> <<>>]
    IN  IF c \in DOMAIN Punctuation THEN quiet(add_token(s, Punctuation[c], <<>>))
        ELSE IF c = "!" THEN quiet(one_or_two(s, "BangEqual", "Bang"))
        ELSE IF c = "=" THEN quiet(one_or_two(s, "EqualEqual", "Equal"))
        ELSE IF c = "<" THEN quiet(one_or_two(s, "LessEqual", "Less"))
        ELSE IF c = ">" THEN quiet(one_or_two(s, "GreaterEqual", "Greater"))
        ELSE IF c = "/"
        THEN LET m == try_match_next(s, "/")
             IN  IF m.matched THEN quiet(while_comment(m.scanner))
                 ELSE quiet(add_token(s, "Slash", <<>>))
        ELSE IF c \in {" ", "\r", "\t"} THEN quiet(s)
        ELSE IF c = "\n" THEN quiet([s EXCEPT !.line = @ + 1])
        ELSE IF c = "\"" THEN scan_string(s)
        ELSE IF is_digit(c) THEN quiet(scan_number(s))
        ELSE IF is_alphabetic(c) \/ c = "_" THEN quiet(scan_identifier(s))
        ELSE [scanner |-> [s EXCEPT !.has_errors = TRUE],
              report |-> <<"[line " \o ToString(s.line)
                              \o "] Error: Unexpected character: " \o c>>]

\* One iteration of the loop of scan_tokens.
scan_step(s) == scan_token([s EXCEPT !.start = s.current])

\* Scanner::scan_tokens as main calls it, once on a new Scanner: the loop, then
\* the EOF token.
RECURSIVE scan_loop(_, _)
scan_loop(s, reports) ==
    IF Scanner_is_at_end(s)
    THEN [scanner |-> s, report |-> reports]
    ELSE LET r == scan_step(s)
         IN  scan_loop(r.scanner, reports \o r.report)

\* scan_tokens after its loop, without the push of the EOF token.
push_eof_missing(s) == s

\* scan_tokens after its loop: the EOF token.
push_eof(s) ==
    [s EXCEPT !.tokens = Append(@, Token_new("EOF", "", <<>>, s.line))]

\* What Scanner::new(source).scan_tokens() leaves and writes to stderr.
tokens_of(source) ==
    LET r == scan_loop(Scanner_new(source), <<>>)
    IN  [scanner |-> push_eof(r.scanner), report |-> r.report]

\* scanner/token.rs: Display of TokenKind and of Token.
TokenKind_fmt ==
    [LeftParenthesis |-> "LEFT_PAREN", RightParenthesis |-> "RIGHT_PAREN",
     LeftBrace |-> "LEFT_BRACE", RightBrace |-> "RIGHT_BRACE", Comma |-> "COMMA",
     Dot |-> "DOT", Minus |-> "MINUS", Plus |-> "PLUS", Semicolon |-> "SEMICOLON",
     Slash |-> "SLASH", Star |-> "STAR", Bang |-> "BANG",
     BangEqual |-> "BANG_EQUAL", Equal |-> "EQUAL", EqualEqual |-> "EQUAL_EQUAL",
     Greater |-> "GREATER", GreaterEqual |-> "GREATER_EQUAL", Less |-> "LESS",
     LessEqual |-> "LESS_EQUAL", Identifier |-> "IDENTIFIER", String |-> "STRING",
     Number |-> "NUMBER", And |-> "AND", Class |-> "CLASS", Else |-> "ELSE",
     False |-> "FALSE", Fun |-> "FUN", For |-> "FOR", If |-> "IF", Nil |-> "NIL",
     Or |-> "OR", Return |-> "RETURN", Super |-> "SUPER",
     This |-> "THIS", True |-> "TRUE", Var |-> "VAR", While |-> "WHILE",
     EOF |-> "EOF"] @@ ("Print" :> "PRINT")
Token_fmt(token) ==
    TokenKind_fmt[token.kind] \o " " \o token.lexeme \o " "
        \o (IF token.literal = <<>> THEN "null" ELSE token.literal[1])

\* ------------------------------------------------------------------ parser
\* parser.rs.  The parser p has its tokens (of token.rs: the literal is a
\* LiteralKind), its 0-based index current, and stderr, the lines it has
\* written.  consume gives [res, p]: its Result and the parser it leaves.

R(res, p) == [res |-> res, p |-> p]

\* lib.rs error: the line it writes.
error(token, message) ==
    IF token.kind = "EOF"
    THEN report(token.line, " at end " \o message)
    ELSE report(token.line, "at '" \o token.lexeme \o "': " \o message)

\* Parser::new.
Parser_new(tokens) ==
    [tokens |-> tokens, current |-> 0, stderr |-> <<>>, calls |-> <<>>, ret |-> NoRet,
     statements |-> <<>>, has_error |-> FALSE, result |-> NoRet, detected |-> 0,
     panicked |-> FALSE, steps |-> 0]

\* Parser::peek, previous, is_at_end, check, advance, error.  detected is
\* history: where the parser was when it reported its last error.  panicked
\* is set when an index is out of the bounds of tokens: the thread panics.
\* steps is history: how many steps the methods have taken.
Parser_peek(p) == p.tokens[p.current + 1]
previous(p) == p.tokens[p.current]
Parser_is_at_end(p) == Parser_peek(p).kind = "EOF"
check(p, kind) == ~Parser_is_at_end(p) /\ Parser_peek(p).kind = kind
\* advance without the test for the end.
advance_past_end(p) == [p EXCEPT !.current = @ + 1]
Parser_advance(p) ==
    IF ~Parser_is_at_end(p) THEN [p EXCEPT !.current = @ + 1] ELSE p
Parser_error(p, token, message) ==
    [p EXCEPT !.stderr = Append(@, error(token, message)), !.detected = p.current]

\* Parser::token_match: whether a kind matched, and the parser it leaves.
token_match(p, kinds) ==
    IF \E kind \in kinds : check(p, kind)
    THEN [matched |-> TRUE, p |-> Parser_advance(p)]
    ELSE [matched |-> FALSE, p |-> p]

\* Parser::consume.  previous() with current 0 indexes tokens at current - 1.
consume(p, kind, message) ==
    IF ~check(p, kind)
    THEN IF p.current = 0 THEN R(Err, [p EXCEPT !.panicked = TRUE])
         ELSE R(Err, Parser_error(p, previous(p), message))
    ELSE R(Ok(previous(Parser_advance(p))), Parser_advance(p))

\* The methods of Parser call each other to the depth of the syntax; the model
\* keeps their call stack in the parser, p.calls, and runs them a step at a
\* time.  A frame is a method, the place pc it has reached (0 at its entry,
\* k after its k-th call) and the locals v it holds over a call.  p.ret is the
\* Result of the call that returned last, p.result the Result of the call at
\* the bottom of the stack once it has returned.

frame(fn, pc, v) == [fn |-> fn, pc |-> pc, v |-> v]
this_frame(p) == p.calls[Len(p.calls)]
goto(p, pc, v) == [p EXCEPT !.calls[Len(p.calls)] = frame(@.fn, pc, v)]
return(p, res) ==
    [p EXCEPT !.calls = SubSeq(@, 1, Len(@) - 1), !.ret = res,
              !.result = IF Len(p.calls) = 1 THEN res ELSE @]

\* The chain of methods each of which begins by calling the next: expression
\* is assignment, and assignment, or, and, equality, comparison, term and
\* factor begin with the call of the next level, down to unary.
Levels == <<"assignment", "or", "and", "equality", "comparison", "term", "factor">>

\* The frames a call of fn pushes: the frame of fn, and of the methods called
\* before anything else is done, each at its first call.
enter(fn) ==
    LET from(i) == [k \in 1..(Len(Levels) - i + 1) |-> frame(Levels[i + k - 1], 1, <<>>)]
                       \o <<frame("unary", 0, <<>>)>>
        level == IF fn = "expression" THEN 1
                 ELSE CHOOSE i \in 1..Len(Levels) : Levels[i] = fn
    IN  IF fn \in {"print_statement", "expression_statement", "parse_expression"}
        THEN <<frame(fn, 1, <<>>)>> \o from(1)
        ELSE IF fn = "expression" \/ \E i \in 1..Len(Levels) : Levels[i] = fn
        THEN from(level)
        ELSE <<frame(fn, 0, <<>>)>>

\* self.fn() called from the frame on top, and return self.fn().
call(p, fn) == [p EXCEPT !.calls = @ \o enter(fn)]
tail_call(p, fn) == [p EXCEPT !.calls = SubSeq(@, 1, Len(@) - 1) \o enter(fn)]

\* Parser::primary.
primary(p) ==
    LET f == this_frame(p)
        kind == Parser_peek(p).kind
        q == Parser_advance(p)
    IN  IF f.pc = 1
        THEN LET paren == consume(p, "RightParenthesis", "Expect ')' after expression.")
             IN  IF p.ret.tag = "Err" THEN return(p, Err)
                 ELSE IF paren.res.tag = "Err" THEN return(paren.p, Err)
                 ELSE return(paren.p, Ok(Grouping(p.ret.value)))
        ELSE CASE kind = "False" -> return(q, Ok(Literal(BoolV(FALSE))))
               [] kind = "True" -> return(q, Ok(Literal(BoolV(TRUE))))
               [] kind = "Nil" -> return(q, Ok(Literal(NilV)))
               [] kind \in {"String", "Number"} ->
                    return(q, Ok(Literal(previous(q).literal)))
               [] kind = "Super" ->
                    LET dot == consume(q, "Dot", "Expect '.' after 'super'.")
                        method == consume(dot.p, "Identifier",
                                          "Expect superclass method name.")
                    IN  IF dot.res.tag = "Err" THEN return(dot.p, Err)
                        ELSE IF method.res.tag = "Err" THEN return(method.p, Err)
                        ELSE return(method.p,
                                    Ok([type |-> "Super", keyword |-> previous(q),
                                        method |-> method.res.value]))
               [] kind = "This" ->
                    return(q, Ok([type |-> "This", keyword |-> previous(q)]))
               [] kind = "Identifier" ->
                    return(q, Ok([type |-> "Variable", name |-> previous(q)]))
               [] kind = "LeftParenthesis" -> call(goto(q, 1, <<>>), "expression")
               [] OTHER ->
                    return(Parser_advance(
                               Parser_error(p, Parser_peek(p), "Expect expression.")),
                           Err)

\* Parser::unary.
unary(p) ==
    LET f == this_frame(p)
        m == token_match(p, {"Bang", "Minus"})
    IN  IF f.pc = 0
        THEN IF m.matched
             THEN call(goto(m.p, 1, [operator |-> previous(m.p)]), "unary")
             ELSE tail_call(p, "primary")
        ELSE IF p.ret.tag = "Err" THEN return(p, Err)
        ELSE return(p, Ok(Unary(f.v.operator, p.ret.value)))

\* binary with the right operand parsed at the level of the operator itself:
\* the operators of a level associate to the right.
binary_right_associative(p, kinds, operand) ==
    LET f == this_frame(p)
        loop(expr) ==
            LET m == token_match(p, kinds)
            IN  IF m.matched
                THEN call(goto(m.p, 2, [expr |-> expr, operator |-> previous(m.p)]),
                          f.fn)
                ELSE return(p, expr)
    IN  IF f.pc = 1 THEN loop(p.ret)
        ELSE IF p.ret.tag = "Err" THEN return(p, Err)
        ELSE IF f.v.expr.tag = "Err" THEN return(p, Err)
        ELSE loop(Ok(Binary(f.v.expr.value, f.v.operator, p.ret.value)))

\* factor, term, comparison and equality, which differ in the operators they
\* take and in the method that parses an operand.  expr is the Result of the
\* left operand, which the loop tests only after it has parsed a right operand.
binary(p, kinds, operand) ==
    LET f == this_frame(p)
        loop(expr) ==
            LET m == token_match(p, kinds)
            IN  IF m.matched
                THEN call(goto(m.p, 2, [expr |-> expr, operator |-> previous(m.p)]),
                          operand)
                ELSE return(p, expr)
    IN  IF f.pc = 1 THEN loop(p.ret)
        ELSE IF p.ret.tag = "Err" THEN return(p, Err)
        ELSE IF f.v.expr.tag = "Err" THEN return(p, Err)
        ELSE loop(Ok(Binary(f.v.expr.value, f.v.operator, p.ret.value)))

\* Parser::factor, term, comparison, equality.
factor(p) == binary(p, {"Slash", "Star"}, "unary")
term(p) == binary(p, {"Minus", "Plus"}, "factor")
comparison(p) == binary(p, {"Greater", "GreaterEqual", "Less", "LessEqual"}, "term")
equality(p) == binary(p, {"BangEqual", "EqualEqual"}, "comparison")

\* and and or, which differ in the operator and in the method of an operand.
logical(p, kinds, operand) ==
    LET f == this_frame(p)
        loop(expr) ==
            LET m == token_match(p, kinds)
            IN  IF m.matched
                THEN call(goto(m.p, 2, [expr |-> expr, operator |-> previous(m.p)]),
                          operand)
                ELSE return(p, Ok(expr))
    IN  IF p.ret.tag = "Err" THEN return(p, Err)
        ELSE IF f.pc = 1 THEN loop(p.ret.value)
        ELSE loop(Logical(f.v.expr, f.v.operator, p.ret.value))

\* Parser::and, or.
and(p) == logical(p, {"And"}, "equality")
or(p) == logical(p, {"Or"}, "and")

\* assignment that takes a variable in parentheses as a target too.
assignment_any_target(p) ==
    LET f == this_frame(p)
        m == token_match(p, {"Equal"})
    IN  IF p.ret.tag = "Err" THEN return(p, Err)
        ELSE IF f.pc = 1
        THEN IF m.matched
             THEN call(goto(m.p, 2, [expr |-> p.ret.value, equals |-> previous(m.p)]),
                       "assignment")
             ELSE return(p, p.ret)
        ELSE IF f.v.expr.type = "Variable"
        THEN return(p, Ok([type |-> "Assignment", name |-> f.v.expr.name,
                           value |-> p.ret.value]))
        ELSE IF f.v.expr.type = "Grouping" /\ f.v.expr.expr.type = "Variable"
        THEN return(p, Ok([type |-> "Assignment", name |-> f.v.expr.expr.name,
                           value |-> p.ret.value]))
        ELSE return(Parser_error(p, f.v.equals, "Invalid assignment target."), Err)

\* Parser::assignment.
assignment(p) ==
    LET f == this_frame(p)
        m == token_match(p, {"Equal"})
    IN  IF p.ret.tag = "Err" THEN return(p, Err)
        ELSE IF f.pc = 1
        THEN IF m.matched
             THEN call(goto(m.p, 2, [expr |-> p.ret.value, equals |-> previous(m.p)]),
                       "assignment")
             ELSE return(p, p.ret)
        ELSE IF f.v.expr.type = "Variable"
        THEN return(p, Ok([type |-> "Assignment", name |-> f.v.expr.name,
                           value |-> p.ret.value]))
        ELSE return(Parser_error(p, f.v.equals, "Invalid assignment target."), Err)

\* Parser::expression_statement.
expression_statement(p) ==
    LET semi == consume(p, "Semicolon", "Expect ';' after expression.")
    IN  IF p.ret.tag = "Err" THEN return(p, Err)
        ELSE IF semi.res.tag = "Err" THEN return(semi.p, Err)
        ELSE return(semi.p, Ok(ExpressionS(p.ret.value)))

\* Parser::print_statement.
print_statement(p) ==
    LET semi == consume(p, "Semicolon", "Expect ';' after value.")
    IN  IF p.ret.tag = "Err" THEN return(p, Err)
        ELSE IF semi.res.tag = "Err" THEN return(semi.p, Err)
        ELSE return(semi.p, Ok(PrintS(p.ret.value)))

\* Parser::var_declaration.
var_declaration(p) ==
    LET f == this_frame(p)
        name == consume(p, "Identifier", "Expect variable name.")
        m == token_match(name.p, {"Equal"})
        finish(q, n, initializer) ==
            LET semi == consume(q, "Semicolon",
                                "Expect ';' after variable declaration.")
            IN  IF semi.res.tag = "Err" THEN return(semi.p, Err)
                ELSE return(semi.p, Ok([type |-> "Var", name |-> n,
                                        initializer |-> initializer]))
    IN  IF f.pc = 0
        THEN IF name.res.tag = "Err" THEN return(name.p, Err)
             ELSE IF m.matched
             THEN call(goto(m.p, 1, [name |-> name.res.value]), "expression")
             ELSE finish(m.p, name.res.value, Literal(NilV))
        ELSE IF p.ret.tag = "Err" THEN return(p, Err)
        ELSE finish(p, f.v.name, p.ret.value)

\* Parser::while_statement.
while_statement(p) ==
    LET f == this_frame(p)
        left == consume(p, "LeftParenthesis", "Expect '(' after 'while'.")
        right == consume(p, "RightParenthesis", "Expect ')' after condition.")
    IN  IF f.pc = 0
        THEN IF left.res.tag = "Err" THEN return(left.p, Err)
             ELSE call(goto(left.p, 1, <<>>), "expression")
        ELSE IF p.ret.tag = "Err" THEN return(p, Err)
        ELSE IF f.pc = 1
        THEN IF right.res.tag = "Err" THEN return(right.p, Err)
             ELSE call(goto(right.p, 2, [condition |-> p.ret.value]), "statement")
        ELSE return(p, Ok(WhileS(f.v.condition, p.ret.value)))

\* Parser::if_statement.
if_statement(p) ==
    LET f == this_frame(p)
        left == consume(p, "LeftParenthesis", "Expect '(' after 'if'.")
        right == consume(p, "RightParenthesis", "Expect ')' after if condition.")
        m == token_match(p, {"Else"})
    IN  IF f.pc = 0
        THEN IF left.res.tag = "Err" THEN return(left.p, Err)
             ELSE call(goto(left.p, 1, <<>>), "expression")
        ELSE IF p.ret.tag = "Err" THEN return(p, Err)
        ELSE IF f.pc = 1
        THEN IF right.res.tag = "Err" THEN return(right.p, Err)
             ELSE call(goto(right.p, 2, [condition |-> p.ret.value]), "statement")
        ELSE IF f.pc = 2
        THEN IF m.matched
             THEN call(goto(m.p, 3, [condition |-> f.v.condition,
                                     then_branch |-> p.ret.value]), "statement")
             ELSE return(p, Ok(IfS(f.v.condition, p.ret.value, <<>>)))
        ELSE return(p, Ok(IfS(f.v.condition, f.v.then_branch, <<p.ret.value>>)))

\* The statement for_statement makes of its clauses and body, with the
\* increment put before the body.
desugar_increment_first(initializer, condition, increment, body) ==
    LET body1 == IF increment # <<>>
                 THEN BlockS(<<ExpressionS(increment[1]), body>>)
                 ELSE body
        body2 == WhileS(condition, body1)
    IN  IF initializer # <<>> THEN BlockS(<<initializer[1], body2>>) ELSE body2

\* The statement for_statement makes of its clauses and body.  The Options
\* initializer and increment are <<>> for None and <<x>> for Some(x).
desugar(initializer, condition, increment, body) ==
    LET body1 == IF increment # <<>>
                 THEN BlockS(<<body, ExpressionS(increment[1])>>)
                 ELSE body
        body2 == WhileS(condition, body1)
    IN  IF initializer # <<>> THEN BlockS(<<initializer[1], body2>>) ELSE body2

\* Parser::for_statement.
for_statement(p) ==
    LET f == this_frame(p)
        body(q, initializer, condition, increment) ==
            LET right == consume(q, "RightParenthesis",
                                 "Expect ')' after for clauses.")
            IN  IF right.res.tag = "Err" THEN return(right.p, Err)
                ELSE call(goto(right.p, 4, [initializer |-> initializer,
                                            condition |-> condition,
                                            increment |-> increment]), "statement")
        increment(q, initializer, condition) ==
            LET semi == consume(q, "Semicolon", "Expect ';' after loop condition.")
            IN  IF semi.res.tag = "Err" THEN return(semi.p, Err)
                ELSE IF ~check(semi.p, "RightParenthesis")
                THEN call(goto(semi.p, 3, [initializer |-> initializer,
                                           condition |-> condition]), "expression")
                ELSE body(semi.p, initializer, condition, <<>>)
        condition(q, initializer) ==
            IF ~check(q, "Semicolon")
            THEN call(goto(q, 2, [initializer |-> initializer]), "expression")
            ELSE increment(q, initializer, Literal(BoolV(TRUE)))
        left == consume(p, "LeftParenthesis", "Expect '(' after 'for'.")
        semi == token_match(left.p, {"Semicolon"})
        var == token_match(left.p, {"Var"})
    IN  IF f.pc = 0
        THEN IF left.res.tag = "Err" THEN return(left.p, Err)
             ELSE IF semi.matched THEN condition(semi.p, <<>>)
             ELSE IF var.matched THEN call(goto(var.p, 1, <<>>), "var_declaration")
             ELSE call(goto(left.p, 1, <<>>), "expression_statement")
        ELSE IF p.ret.tag = "Err" THEN return(p, Err)
        ELSE IF f.pc = 1 THEN condition(p, <<p.ret.value>>)
        ELSE IF f.pc = 2 THEN increment(p, f.v.initializer, p.ret.value)
        ELSE IF f.pc = 3 THEN body(p, f.v.initializer, f.v.condition, <<p.ret.value>>)
        ELSE return(p, Ok(desugar(f.v.initializer, f.v.condition, f.v.increment,
                                  p.ret.value)))

\* Parser::block.
block(p) ==
    LET f == this_frame(p)
        loop(stmts) ==
            LET brace == consume(p, "RightBrace", "Expect '}' after block.")
            IN  IF ~check(p, "RightBrace") /\ ~Parser_is_at_end(p)
                THEN call(goto(p, 1, [statements |-> stmts]), "declaration")
                ELSE IF brace.res.tag = "Err" THEN return(brace.p, Err)
                ELSE return(brace.p, Ok(stmts))
    IN  IF f.pc = 0 THEN loop(<<>>)
        ELSE IF p.ret.tag = "Err" THEN return(p, Err)
        ELSE loop(Append(f.v.statements, p.ret.value))

\* Parser::statement.
statement(p) ==
    LET f == this_frame(p)
        m == token_match(p, {"For", "If", "Print", "While", "LeftBrace"})
        kind == previous(m.p).kind
    IN  IF f.pc = 1
        THEN IF p.ret.tag = "Err" THEN return(p, Err)
             ELSE return(p, Ok(BlockS(p.ret.value)))
        ELSE IF ~m.matched THEN tail_call(p, "expression_statement")
        ELSE CASE kind = "For" -> tail_call(m.p, "for_statement")
               [] kind = "If" -> tail_call(m.p, "if_statement")
               [] kind = "Print" -> tail_call(m.p, "print_statement")
               [] kind = "While" -> tail_call(m.p, "while_statement")
               [] kind = "LeftBrace" -> call(goto(m.p, 1, <<>>), "block")

\* The kinds synchronize stops in front of.
StatementStarts == {"Class", "Fun", "Var", "For", "If", "While", "Print", "Return"}

\* Where the loop of synchronize stops: at the end, after a semicolon or in
\* front of a token that starts a statement.
stops(p) ==
    \/ Parser_is_at_end(p)
    \/ previous(p).kind = "Semicolon"
    \/ Parser_peek(p).kind \in StatementStarts

\* synchronize without the advance it begins with.
synchronize_no_advance(p) ==
    LET start == IF p.current = 0 THEN Parser_advance(p) ELSE p
        at(i) == [p EXCEPT !.current = i]
    IN  at(CHOOSE i \in start.current..(Len(p.tokens) - 1) :
               /\ stops(at(i))
               /\ \A j \in start.current..(i - 1) : ~stops(at(j)))

\* Parser::synchronize: it advances, and then until it stops.
synchronize(p) ==
    LET start == Parser_advance(p)
        at(i) == [p EXCEPT !.current = i]
    IN  at(CHOOSE i \in start.current..(Len(p.tokens) - 1) :
               /\ stops(at(i))
               /\ \A j \in start.current..(i - 1) : ~stops(at(j)))

\* Parser::declaration.
declaration(p) ==
    LET f == this_frame(p)
        m == token_match(p, {"Var"})
    IN  IF f.pc = 0
        THEN IF m.matched THEN call(goto(m.p, 1, <<>>), "var_declaration")
             ELSE call(goto(p, 1, <<>>), "statement")
        ELSE IF p.ret.tag = "Ok" THEN return(p, p.ret)
        ELSE return(synchronize(p), Err)

\* parse_expression that takes a token after the expression for an error.
parse_expression_to_end(p) ==
    IF p.ret.tag = "Ok" /\ ~Parser_is_at_end(p)
    THEN return(Parser_error(p, Parser_peek(p), "Expect end of expression."), Err)
    ELSE IF p.ret.tag = "Ok" THEN return(p, p.ret) ELSE return(p, Err)

\* Parser::parse_expression.
parse_expression(p) ==
    IF p.ret.tag = "Ok" THEN return(p, p.ret) ELSE return(p, Err)

\* parse that returns the statements it has, whether or not one has failed.
Parser_parse_partial(p) ==
    LET f == this_frame(p)
    IN  IF f.pc = 1
        THEN IF p.ret.tag = "Ok"
             THEN goto([p EXCEPT !.statements = Append(@, p.ret.value)], 0, <<>>)
             ELSE goto([p EXCEPT !.has_error = TRUE], 0, <<>>)
        ELSE IF ~Parser_is_at_end(p)
        THEN call(goto(p, 1, [start |-> p.current]), "declaration")
        ELSE return(p, Ok(p.statements))

\* Parser::parse.  Its locals statements and has_error are kept in the parser;
\* start is history: where the parser was when the iteration began.
Parser_parse(p) ==
    LET f == this_frame(p)
    IN  IF f.pc = 1
        THEN IF p.ret.tag = "Ok"
             THEN goto([p EXCEPT !.statements = Append(@, p.ret.value)], 0, <<>>)
             ELSE goto([p EXCEPT !.has_error = TRUE], 0, <<>>)
        ELSE IF ~Parser_is_at_end(p)
        THEN call(goto(p, 1, [start |-> p.current]), "declaration")
        ELSE return(p, IF p.has_error THEN Err ELSE Ok(p.statements))

\* The step of the method on top of the call stack.
step(p) ==
    LET fn == this_frame(p).fn
    IN  CASE fn = "parse" -> Parser_parse(p)
          [] fn = "parse_expression" -> parse_expression(p)
          [] fn = "declaration" -> declaration(p)
          [] fn = "statement" -> statement(p)
          [] fn = "for_statement" -> for_statement(p)
          [] fn = "if_statement" -> if_statement(p)
          [] fn = "print_statement" -> print_statement(p)
          [] fn = "var_declaration" -> var_declaration(p)
          [] fn = "while_statement" -> while_statement(p)
          [] fn = "expression_statement" -> expression_statement(p)
          [] fn = "block" -> block(p)
          [] fn = "assignment" -> assignment(p)
          [] fn = "or" -> or(p)
          [] fn = "and" -> and(p)
          [] fn = "equality" -> equality(p)
          [] fn = "comparison" -> comparison(p)
          [] fn = "term" -> term(p)
          [] fn = "factor" -> factor(p)
          [] fn = "unary" -> unary(p)
          [] fn = "primary" -> primary(p)

\* A parser on which the method fn has been called.
entered(tokens, fn) ==
    [Parser_new(tokens) EXCEPT !.calls = enter(fn)]

\* Parser::parse and the methods it calls: a step of the one that is running.
\* What the step writes to stderr is appended to errors.
parse ==
    /\ parser # <<>>
    /\ parser.calls # <<>>
    /\ ~parser.panicked
    /\ UNCHANGED <<interpreterVars, output, scanner, process>>
    /\ parser' = [step(parser) EXCEPT !.steps = @ + 1]
    /\ errors' = errors \o SubSeq(parser'.stderr, Len(parser.stderr) + 1,
                                  Len(parser'.stderr))


\* The token the scanner makes of a word: a keyword, a one-digit number, a
\* one-letter identifier, a string in quotes, an operator or punctuation.
OperatorKinds ==
    [c \in {"!", "!=", "=", "==", "<", "<=", ">", ">=", "/", "or", "and"} |->
        CASE c = "!" -> "Bang" [] c = "!=" -> "BangEqual" [] c = "=" -> "Equal"
          [] c = "==" -> "EqualEqual" [] c = "<" -> "Less" [] c = "<=" -> "LessEqual"
          [] c = ">" -> "Greater" [] c = ">=" -> "GreaterEqual" [] c = "/" -> "Slash"
          [] c = "or" -> "Or" [] c = "and" -> "And"]
DigitValue ==
    [c \in {"0", "1", "2", "3", "4", "5", "6", "7", "8", "9"} |->
        CASE c = "0" -> 0 [] c = "1" -> 1 [] c = "2" -> 2 [] c = "3" -> 3
          [] c = "4" -> 4 [] c = "5" -> 5 [] c = "6" -> 6 [] c = "7" -> 7
          [] c = "8" -> 8 [] c = "9" -> 9]
Word(w, line) ==
    IF w \in DOMAIN KEYWORDS THEN Token_new(KEYWORDS[w], w, NilV, line)
    ELSE IF w \in DOMAIN Punctuation THEN Token_new(Punctuation[w], w, NilV, line)
    ELSE IF w \in DOMAIN OperatorKinds THEN Token_new(OperatorKinds[w], w, NilV, line)
    ELSE IF w \in DOMAIN DigitValue
    THEN Token_new("Number", w, Num(DigitValue[w]), line)
    ELSE IF SubSeq(w, 1, 1) = "\""
    THEN Token_new("String", w, StringV(SubSeq(w, 2, Len(w) - 1)), line)
    ELSE Token_new("Identifier", w, NilV, line)

\* The tokens of the source that has the words on a line each.
Lex(words) ==
    [i \in 1..(Len(words) + 1) |->
        IF i <= Len(words) THEN Word(words[i], i) ELSE Token_new("EOF", "", NilV, i)]

\* The token sequences parse is run on: every sequence of at most MaxTokens of
\* the words of ParseAlphabet, and the for statements and assignments below.
ParseAlphabet == {"print", "var", "a", ";", "=", "(", ")", "{", "}"}
WordSequences == UNION {[1..n -> ParseAlphabet] : n \in 0..MaxTokens}

\* for ( initializer condition ; increment ) body, every clause present or not.
ForInitializers == {<<";">>, <<"var", "i", "=", "0", ";">>, <<"i", "=", "0", ";">>}
ForConditions == {<<>>, <<"i", "<", "2">>}
ForIncrements == {<<>>, <<"i", "=", "i", "+", "1">>}
ForBodies == {<<"print", "i", ";">>, <<"{", "print", "i", ";", "}">>}
ForSequences ==
    {<<"for", "(">> \o init \o cond \o <<";">> \o incr \o <<")">> \o body :
        init \in ForInitializers, cond \in ForConditions, incr \in ForIncrements,
        body \in ForBodies}

\* target = value ; for targets of every expression type.
Targets ==
    {<<"a">>, <<"1">>, <<"\"s\"">>, <<"nil">>, <<"(", "a", ")">>, <<"a", "+", "b">>,
     <<"-", "a">>, <<"!", "a">>, <<"a", "or", "b">>, <<"a", "and", "b">>,
     <<"a", "==", "b">>, <<"this">>}
Values == {<<"1">>, <<"b", "=", "c">>, <<"b", "or", "c">>, <<"(", "b", ")", "=", "1">>}
AssignmentSequences ==
    {target \o <<"=">> \o value \o <<";">> : target \in Targets, value \in Values}

TokenSequences ==
    {Lex(ws) : ws \in WordSequences \cup ForSequences \cup AssignmentSequences}

ParseInit ==
    /\ parser \in {entered(tokens, "parse") : tokens \in TokenSequences}
    /\ scanner = <<>>
    /\ process = <<>>
    /\ statements = <<>>
    /\ index = 0
    /\ has_error = FALSE
    /\ result = "none"
    /\ stack = <<>>
    /\ ret = NoRet
    /\ heap = (1 :> new)
    /\ environment = 1
    /\ output = <<>>
    /\ errors = <<>>
    /\ log = <<>>
    /\ writes = <<>>
ParseNext == parse
ParseSpec == ParseInit /\ [][ParseNext]_vars

\* The token sequences parse_expression is run on: every sequence of at most
\* MaxTokens of the words of ExprAlphabet; two operators between three
\* operands, for every pair of operators; operands with unary operators; and
\* longer expressions with parentheses.
ExprAlphabet == {"a", "-", "*", "<", "or", "=", "(", ")"}
Operators ==
    {"=", "or", "and", "==", "!=", "<", "<=", ">", ">=", "-", "+", "*", "/"}
Prefixes == {<<>>, <<"-">>, <<"!">>, <<"!", "-">>}
ExprSequences ==
    UNION {[1..n -> ExprAlphabet] : n \in 0..MaxTokens}
        \cup {<<"a", o1, "b", o2, "c">> : o1, o2 \in Operators}
        \cup {u \o <<"a", o>> \o v \o <<"b">> :
                u, v \in Prefixes, o \in Operators \ {"="}}
        \cup {<<"(", "1", "+", "2", ")", "*", "-", "3">>,
              <<"a", "=", "b", "=", "(", "c", "or", "1", ")", "and", "2">>,
              <<"1", "-", "2", "-", "3", ";">>, <<"1", "2">>, <<"1", ";">>,
              <<"true", "==", "!", "nil", "!=", "\"s\"">>}

ExprInit ==
    /\ parser \in {entered(Lex(ws), "parse_expression") : ws \in ExprSequences}
    /\ scanner = <<>>
    /\ process = <<>>
    /\ statements = <<>>
    /\ index = 0
    /\ has_error = FALSE
    /\ result = "none"
    /\ stack = <<>>
    /\ ret = NoRet
    /\ heap = (1 :> new)
    /\ environment = 1
    /\ output = <<>>
    /\ errors = <<>>
    /\ log = <<>>
    /\ writes = <<>>
ExprNext == parse
ExprSpec == ExprInit /\ [][ExprNext]_vars

\* parse and parse_expression, each on its token sequences.
RunInit == ParseInit \/ ExprInit
RunNext == parse
RunSpec == RunInit /\ [][RunNext]_vars

\* ------------------------------------------------------------------ main
\* main.rs.  process is the running process: the command and the file's
\* contents (its inputs), pc the position in main, exit the exit code once the
\* process has ended.  stdout is `output`, stderr is `errors`.

\* process::exit(code), and the return from main (code 0).
exit(code) == process' = [process EXCEPT !.pc = "exit", !.exit = code]

\* main up to Scanner::new.
main ==
    /\ process.pc = "main"
    /\ UNCHANGED <<interpreterVars, errors, parser>>
    /\ IF process.file_contents = ""
       THEN /\ output' = Append(output, "EOF  null")
            /\ exit(0)
            /\ UNCHANGED scanner
       ELSE /\ scanner' = Scanner_new(process.file_contents)
            /\ process' = [process EXCEPT !.pc = "scan_tokens"]
            /\ UNCHANGED output

\* Scanner::scan_tokens: one iteration of its loop, or the end of the loop.
scan_tokens ==
    /\ process.pc = "scan_tokens"
    /\ UNCHANGED <<interpreterVars, output, parser>>
    /\ IF ~Scanner_is_at_end(scanner)
       THEN LET r == scan_step(scanner)
            IN  /\ scanner' = r.scanner
                /\ errors' = errors \o r.report
                /\ UNCHANGED process
       ELSE /\ scanner' = push_eof(scanner)
            /\ process' = [process EXCEPT !.pc = "command"]
            /\ UNCHANGED errors

\* main, the "tokenize" arm.
tokenize ==
    /\ process.pc = "command"
    /\ process.command = "tokenize"
    /\ UNCHANGED <<interpreterVars, errors, scanner, parser>>
    /\ output' = output \o [i \in DOMAIN scanner.tokens |-> Token_fmt(scanner.tokens[i])]
    /\ exit(IF scanner.has_errors THEN 65 ELSE 0)

\* The state main starts in.
Started(command, file_contents) ==
    /\ process = [command |-> command, file_contents |-> file_contents,
                  pc |-> "main", exit |-> -1, run |-> 1, first |-> <<>>]
    /\ scanner = <<>>
    /\ parser = <<>>
    /\ statements = <<>>
    /\ index = 0
    /\ has_error = FALSE
    /\ result = "none"
    /\ stack = <<>>
    /\ ret = NoRet
    /\ heap = (1 :> new)
    /\ environment = 1
    /\ output = <<>>
    /\ errors = <<>>
    /\ log = <<>>
    /\ writes = <<>>

\* The sources tokenize is run on: every string of at most MaxSource of these
\* characters.
ScanAlphabet == {"@", "\"", "/", "\n", "=", "1", ".", "a"}
ScanSources ==
    {collect(cs) : cs \in UNION {[1..n -> ScanAlphabet] : n \in 0..MaxSource}}

ScanInit == \E source \in ScanSources : Started("tokenize", source)
ScanNext ==
    \/ main
    \/ scan_tokens
    \/ tokenize
ScanSpec == ScanInit /\ [][ScanNext]_vars

\* ------------------------------------------------------------------ ast printer
\* ast_printer.rs, and the conversion of token.rs it prints a literal with.

\* From<LiteralKind> for String.
String_from(literal) ==
    CASE literal.kind = "String" -> literal.s
      [] literal.kind = "Number" -> number_literal(Chars(f64_to_string(literal)))
      [] literal.kind = "Bool" -> (IF literal.b THEN "true" ELSE "false")
      [] literal.kind = "Nil" -> "null"

\* A method that is todo!(): the thread panics.
Panic == [tag |-> "Panic", value |-> NilV]

\* visit_literal without its test for Nil.
print_literal_null(value) == String_from(value)

\* AstPrinter::visit_literal.
print_literal(value) == IF value = NilV THEN "nil" ELSE String_from(value)

\* AstPrinter::print: accept dispatches to visit_binary, visit_grouping,
\* visit_literal and visit_unary, which parenthesize their operands; every
\* other visit_* is todo!().
RECURSIVE AstPrinter_print(_)
parenthesize(name, exprs) ==
    LET parts == [i \in DOMAIN exprs |-> AstPrinter_print(exprs[i])]
        joined[i \in 0..Len(exprs)] ==
            IF i = 0 THEN "(" \o name ELSE joined[i - 1] \o " " \o parts[i].value
    IN  IF \E i \in DOMAIN exprs : parts[i].tag = "Panic" THEN Panic
        ELSE Ok(joined[Len(exprs)] \o ")")
AstPrinter_print(expr) ==
    CASE expr.type = "Binary" ->
            parenthesize(expr.operator.lexeme, <<expr.left, expr.right>>)
      [] expr.type = "Grouping" -> parenthesize("group", <<expr.expr>>)
      [] expr.type = "Literal" -> Ok(print_literal(expr.value))
      [] expr.type = "Unary" -> parenthesize(expr.operator.lexeme, <<expr.right>>)
      [] OTHER -> Panic

\* ------------------------------------------------------------------ commands
\* main.rs after scan_tokens: Parser::new(tokens.clone()) and the arms of the
\* match on the command.

\* The f64 a number token stands for, for the texts the model has values for:
\* digits, and digits with a fraction that is zero or a half.
RECURSIVE digits_value(_)
digits_value(chars) ==
    IF chars = <<>> THEN 0
    ELSE 10 * digits_value(SubSeq(chars, 1, Len(chars) - 1))
            + DigitValue[chars[Len(chars)]]
parse_f64(text) ==
    LET chars == Chars(text)
        dots == {i \in DOMAIN chars : chars[i] = "."}
        dot == IF dots = {} THEN Len(chars) + 1 ELSE CHOOSE i \in dots : TRUE
        whole == digits_value(SubSeq(chars, 1, dot - 1))
        fraction == SubSeq(chars, dot + 1, Len(chars))
        zeros(cs) == \A i \in DOMAIN cs : cs[i] = "0"
    IN  CASE zeros(fraction) -> Num(whole)
          [] fraction # <<>> /\ fraction[1] = "5" /\ zeros(Tail(fraction)) ->
                NumberV(2 * whole + 1, 2)

\* The tokens the parser is given: the literal of a token is a LiteralKind,
\* the f64 of a number, the characters of a string, else Nil.
Tokens(tokens) ==
    [i \in DOMAIN tokens |->
        LET t == tokens[i]
        IN  Token_new(t.kind, t.lexeme,
                      CASE t.kind = "Number" -> parse_f64(t.lexeme)
                        [] t.kind = "String" -> StringV(t.literal[1])
                        [] OTHER -> NilV,
                      t.line)]

\* What a panic writes.
panicked == "thread 'main' panicked: not yet implemented"

\* main, the "parse" arm: parse_expression is called; when it has returned,
\* the expression is printed, or the process exits.
command_parse ==
    /\ process.command = "parse"
    /\ UNCHANGED <<interpreterVars, scanner>>
    /\ \/ /\ process.pc = "command"
          /\ parser' = entered(Tokens(scanner.tokens), "parse_expression")
          /\ process' = [process EXCEPT !.pc = "parsing"]
          /\ UNCHANGED <<output, errors>>
       \/ /\ process.pc = "parsing"
          /\ parser.calls = <<>>
          /\ UNCHANGED parser
          /\ IF parser.result.tag = "Err"
             THEN exit(65) /\ UNCHANGED <<output, errors>>
             ELSE LET printed == AstPrinter_print(parser.result.value)
                  IN  IF printed.tag = "Panic"
                      THEN /\ exit(101)
                           /\ errors' = Append(errors, panicked)
                           /\ UNCHANGED output
                      ELSE /\ exit(0)
                           /\ output' = Append(output, printed.value)
                           /\ UNCHANGED errors

\* main, the "evaluate" arm: parse_expression, then interpret_expression,
\* which evaluates the expression and returns the text of its value.
command_evaluate ==
    /\ process.command = "evaluate"
    /\ UNCHANGED <<statements, index, has_error, memVars, scanner>>
    /\ \/ /\ process.pc = "command"
          /\ parser' = entered(Tokens(scanner.tokens), "parse_expression")
          /\ process' = [process EXCEPT !.pc = "parsing"]
          /\ UNCHANGED <<result, stack, ret, log, output, errors>>
       \/ /\ process.pc = "parsing"
          /\ parser.calls = <<>>
          /\ UNCHANGED <<parser, output, errors>>
          /\ IF parser.result.tag = "Err"
             THEN exit(65) /\ UNCHANGED <<result, stack, ret, log>>
             ELSE /\ process' = [process EXCEPT !.pc = "interpreting"]
                  /\ result' = "expression"
                  /\ stack' = <<NewFrame(parser.result.value)>>
                  /\ ret' = NoRet
                  /\ log' = Append(log, Event("enter", 1, parser.result.value, NoRet,
                                              Len(log) + 1))
       \/ /\ process.pc = "interpreting"
          /\ stack = <<>>
          /\ UNCHANGED <<parser, result, stack, ret, log, errors>>
          /\ IF ret.tag = "Ok"
             THEN exit(0) /\ output' = Append(output, stringify(ret.value))
             ELSE exit(70) /\ UNCHANGED output

\* main, the "run" arm: parse, then interpret.
command_run ==
    /\ process.command = "run"
    /\ UNCHANGED <<index, has_error, stack, ret, log, memVars, ioVars, scanner>>
    /\ \/ /\ process.pc = "command"
          /\ parser' = entered(Tokens(scanner.tokens), "parse")
          /\ process' = [process EXCEPT !.pc = "parsing"]
          /\ UNCHANGED <<statements, result>>
       \/ /\ process.pc = "parsing"
          /\ parser.calls = <<>>
          /\ UNCHANGED parser
          /\ IF parser.result.tag = "Err"
             THEN exit(65) /\ UNCHANGED <<statements, result>>
             ELSE /\ process' = [process EXCEPT !.pc = "interpreting"]
                  /\ statements' = parser.result.value
                  /\ result' = "running"
       \/ /\ process.pc = "interpreting"
          /\ result \in {"Ok", "Err"}
          /\ UNCHANGED <<parser, statements, result>>
          /\ exit(IF result = "Err" THEN 70 ELSE 0)

\* main, the arm of any other command.
unknown_command ==
    /\ process.pc = "command"
    /\ process.command \notin {"tokenize", "parse", "evaluate", "run"}
    /\ UNCHANGED <<interpreterVars, output, scanner, parser>>
    /\ errors' = Append(errors, "Unknown command: " \o process.command)
    /\ exit(0)

\* The expression and statement types whose visit_* is todo!().
Reserved == {"Call", "Get", "Set", "This", "Super", "Function", "Return", "Class"}

\* Interpreter::visit_call, visit_get, visit_set, visit_this, visit_super,
\* visit_function, visit_return, visit_class: todo!(), the thread panics and
\* the process ends with the exit code of a panic.
todo ==
    /\ process # <<>>
    /\ process.pc = "interpreting"
    /\ stack # <<>>
    /\ Top.node.type \in Reserved
    /\ UNCHANGED <<interpreterVars, output, scanner, parser>>
    /\ errors' = Append(errors, panicked)
    /\ exit(101)

\* The commands and sources main is run on.
Commands == {"tokenize", "parse", "evaluate", "run", "lex"}
\* Programs of variable declarations: in a block or not, after a declaration
\* of the same name or not.
VarOuter == {"", "var a = 1; ", "var a; "}
VarInner ==
    {"var a = a; ", "var a; ", "var a = 2; var a = 3; ", "var a = u; ",
     "var a = a = 2; ", "var a = -nil; ", "var b = a; var a = b; "}
VarSources ==
    {outer \o "{ " \o inner \o "print a; } print a;" :
        outer \in VarOuter, inner \in VarInner}
        \cup {outer \o inner \o "print a;" : outer \in VarOuter, inner \in VarInner}
\* An expression and tokens after it.
TrailingSources ==
    {"1 2", "1;", "1 - 2 ; 3", "(1) )", "1 + 2 nil = 3", "1 (", "-1 var", "(1 2"}
MainSources ==
    {"", "1", "1 @", "(1", "-nil", "this", "super.m", "1 + 2", "\"a",
     "print 1; @", "print -nil; print 2;", "print 1", "print this;",
     "var a = 1; { a = -(a) + 1; } if (a or nil) print a; while (a < 2) a = a + 1;"}
        \cup VarSources \cup TrailingSources

MainInit == \E command \in Commands, source \in MainSources : Started(command, source)
MainNext ==
    \/ main
    \/ scan_tokens
    \/ tokenize
    \/ command_parse
    \/ command_evaluate
    \/ command_run
    \/ unknown_command
    \/ parse
    \/ todo
    \/ Next
MainSpec == MainInit /\ [][MainNext]_vars

\* The test of the printer: parse is run on a source, and run again on what
\* it has printed.  process.first is the expression of the first run.
reparse ==
    /\ process.pc = "exit"
    /\ process.command = "parse"
    /\ process.run = 1
    /\ process.exit = 0
    /\ UNCHANGED <<interpreterVars, output, errors>>
    /\ process' = [command |-> "parse", file_contents |-> output[Len(output)],
                   pc |-> "main", exit |-> -1, run |-> 2,
                   first |-> <<parser.result.value>>]
    /\ scanner' = <<>>
    /\ parser' = <<>>

\* The sources of the test: every string of at most MaxSource of the
\* characters of PrintAlphabet, and some with the other literals and operators.
PrintAlphabet == {"1", ".", "5", "-", "(", ")"}
\* The fraction of every number of the source is a half: the model has a value
\* for the number.
Halves(chars) ==
    \A i \in 2..(Len(chars) - 1) :
        chars[i] = "." /\ is_digit(chars[i - 1]) /\ is_digit(chars[i + 1])
            => chars[i + 1] = "5" /\ (i + 2 <= Len(chars) => ~is_digit(chars[i + 2]))
PrintSources ==
    {collect(cs) : cs \in {c \in UNION {[1..n -> PrintAlphabet] : n \in 1..MaxSource} :
                              Halves(c)}}
        \cup {"true", "false", "nil", "\"a\"", "\"nil\"", "!true", "1 == 2",
              "1 + 2 * 3", "(1 + 2) / -5", "a", "10.50"}

PrintInit == \E source \in PrintSources : Started("parse", source)
PrintNext ==
    \/ main
    \/ scan_tokens
    \/ command_parse
    \/ parse
    \/ reparse
PrintSpec == PrintInit /\ [][PrintNext]_vars

\* ------------------------------------------------------------------ properties
\* The properties read the history in `log`: each entry to a frame and each
\* exit from it, with the result and the memory as the step left them.

\* The exits from frames of the given node type.
Exits(type) == {k \in DOMAIN log : log[k].ev = "exit" /\ log[k].node.type = type}

\* The entry that the exit log[k] belongs to.
Entry(k) == log[log[k].from]

\* The entries and exits of the calls the frame that exits at log[k] made
\* itself, in order.
Inner(k) ==
    SelectSeq(SubSeq(log, log[k].from + 1, k - 1),
              LAMBDA e : e.depth = log[k].depth + 1)

\* C1: when the execution of a Block returns, with Ok or with the runtime
\* error of an inner statement at any depth, the interpreter's current
\* environment is the one (the same live object) that was current when the
\* block was entered.
BlockRestoresEnvironment ==
    \A k \in Exits("Block") :
        /\ log[k].env = Entry(k).env
        /\ log[k].env \in DOMAIN log[k].heap

\* A block has returned the runtime error of a block nested in it.
NestedBlockFailed ==
    \E k, j \in Exits("Block") :
        /\ log[k].from < log[j].from
        /\ j < k
        /\ log[j].res.tag = "Err"
        /\ log[k].res.tag = "Err"
        /\ log[j].env # log[k].env

\* The names the programs use.
Names == {"a", "b", "i", "u"}

\* The positions, counted outward from the environment at address e, of the
\* scopes that bind the name n.
Binders(h, e, n) ==
    {i \in 1..Len(Chain(h, e)) : n \in DOMAIN h[Chain(h, e)[i]].values}

\* The address of the innermost scope that binds n (Binders is not empty).
Innermost(h, e, n) ==
    Chain(h, e)[CHOOSE i \in Binders(h, e, n) : \A j \in Binders(h, e, n) : i <= j]

\* What n resolves to from e: the set of the one value, empty when no scope
\* binds n.
Resolve(h, e, n) ==
    IF Binders(h, e, n) = {} THEN {} ELSE {h[Innermost(h, e, n)].values[n]}

Undefined(name) ==
    "[line " \o ToString(name.line) \o "] Error: Undefined variable '"
        \o name.lexeme \o "'."

\* C2: a Variable reference gives the value the innermost scope binding the
\* name holds, never one of a scope further out; when no scope binds it, it
\* fails with "Undefined variable 'NAME'." and changes nothing.
GetInnermostBinding ==
    \A k \in Exits("Variable") :
        LET e == log[k]
            b == Entry(k)
            n == e.node.name
        IN  /\ e.heap = b.heap
            /\ e.env = b.env
            /\ e.out = b.out
            /\ IF Binders(b.heap, b.env, n.lexeme) # {}
               THEN /\ e.res = Ok(b.heap[Innermost(b.heap, b.env, n.lexeme)].values[n.lexeme])
                    /\ e.errs = b.errs
               ELSE /\ e.res = Err
                    /\ e.errs = Append(b.errs, Undefined(n))

\* A name bound in two scopes with different values was read, and in the same
\* run a name that no scope binds.
ShadowedAndUndefinedRead ==
    /\ \E k \in Exits("Variable") :
          LET e == log[k]
              n == e.node.name.lexeme
              ch == Chain(e.heap, e.env)
          IN  \E i, j \in Binders(e.heap, e.env, n) :
                  /\ i < j
                  /\ e.heap[ch[i]].values[n] # e.heap[ch[j]].values[n]
                  /\ e.res = Ok(e.heap[ch[i]].values[n])
    /\ \E k \in Exits("Variable") : log[k].res = Err

\* The heap b with the binding of n in the scope at address t set to v, and
\* nothing else changed.
OnlyOverwrites(a, b, t, n, v) ==
    /\ DOMAIN a = DOMAIN b
    /\ \A id \in DOMAIN b :
          /\ a[id].enclosing = b[id].enclosing
          /\ DOMAIN a[id].values = DOMAIN b[id].values
          /\ \A m \in DOMAIN b[id].values :
                a[id].values[m] = IF id = t /\ m = n THEN v ELSE b[id].values[m]

\* C3: an Assignment overwrites the binding of the innermost scope that binds
\* the name, with the value of its right-hand side, and changes no other
\* binding and no scope's set of names; when no scope binds the name it fails
\* with the undefined-variable error and every scope stays as it was.
AssignOverwritesInnermost ==
    \A k \in Exits("Assignment") :
        LET e == log[k]
            v == log[k - 1]
            n == e.node.name
        IN  /\ v.ev = "exit"
            /\ v.depth = e.depth + 1
            /\ v.node = e.node.value
            /\ e.env = v.env
            /\ IF v.res.tag = "Err"
               THEN e.res = Err /\ e.heap = v.heap /\ e.errs = v.errs
               ELSE IF Binders(v.heap, v.env, n.lexeme) = {}
               THEN /\ e.res = Err
                    /\ e.heap = v.heap
                    /\ e.errs = Append(v.errs, Undefined(n))
               ELSE /\ e.res = Ok(v.res.value)
                    /\ e.errs = v.errs
                    /\ OnlyOverwrites(e.heap, v.heap,
                                      Innermost(v.heap, v.env, n.lexeme),
                                      n.lexeme, v.res.value)

\* An assignment from inside a block changed the value of a binding of an
\* enclosing scope, and in the same run an assignment to an unbound name
\* failed.
OuterAssignedAndUndefinedAssigned ==
    /\ \E k \in Exits("Assignment") :
          LET e == log[k]
              n == e.node.name.lexeme
          IN  /\ e.res.tag = "Ok"
              /\ Innermost(log[k - 1].heap, e.env, n) # e.env
              /\ Resolve(log[k - 1].heap, e.env, n) # Resolve(e.heap, e.env, n)
    /\ \E k \in Exits("Assignment") :
          /\ log[k].res = Err
          /\ log[k - 1].res.tag = "Ok"

\* The bindings assign overwrote between two log entries.
Written(b, e) == {writes[i] : i \in (b.w + 1)..e.w}

\* C4: a Var statement binds the name in the current scope only (inside a
\* block: the block's scope) and changes no binding of any other scope; when
\* a block exits, every scope that was there at its entry binds the same
\* names, to the same values unless an assignment overwrote them, so every
\* name resolves as before the block (to its enclosing binding, or to no
\* binding).
VarBindsOnlyInBlockScope ==
    /\ \A k \in Exits("Var") :
          LET e == log[k]
              v == log[k - 1]
              n == e.node.name.lexeme
          IN  v.res.tag = "Ok" =>
                /\ e.res = Ok(NilV)
                /\ DOMAIN e.heap = DOMAIN v.heap
                /\ \A id \in DOMAIN v.heap \ {v.env} : e.heap[id] = v.heap[id]
                /\ e.heap[v.env].enclosing = v.heap[v.env].enclosing
                /\ DOMAIN e.heap[v.env].values = DOMAIN v.heap[v.env].values \cup {n}
                /\ \A m \in DOMAIN e.heap[v.env].values :
                      e.heap[v.env].values[m] =
                          IF m = n THEN v.res.value ELSE v.heap[v.env].values[m]
    /\ \A k \in Exits("Block") :
          LET e == log[k]
              b == Entry(k)
          IN  /\ DOMAIN e.heap = DOMAIN b.heap
              /\ \A id \in DOMAIN b.heap :
                    /\ e.heap[id].enclosing = b.heap[id].enclosing
                    /\ DOMAIN e.heap[id].values = DOMAIN b.heap[id].values
                    /\ \A m \in DOMAIN b.heap[id].values :
                          \/ e.heap[id].values[m] = b.heap[id].values[m]
                          \/ <<id, m>> \in Written(b, e)
              /\ \A n \in Names :
                    \/ Resolve(e.heap, e.env, n) = Resolve(b.heap, b.env, n)
                    \/ \E w \in Written(b, e) : w[2] = n

\* A block declared a name that an enclosing scope binds to another value and
\* a name that no enclosing scope binds, and has exited.
ShadowingBlockExited ==
    \E k \in Exits("Block") :
        \E i, j \in Exits("Var") :
            /\ log[k].from < i /\ i < k
            /\ log[k].from < j /\ j < k
            /\ log[i].depth = log[k].depth + 1
            /\ log[i].res.tag = "Ok"
            /\ log[j].res.tag = "Ok"
            /\ LET n == log[i].node.name.lexeme
                   m == log[j].node.name.lexeme
               IN  /\ Resolve(log[k].heap, log[k].env, n) # {}
                   /\ Resolve(log[k].heap, log[k].env, n)
                          # Resolve(log[i].heap, log[i].env, n)
                   /\ Resolve(log[j].heap, log[j].env, m) # {}
                   /\ Resolve(log[k].heap, log[k].env, m) = {}

\* The entries to and exits from the frames interpret itself called.
TopLevel == SelectSeq(log, LAMBDA e : e.depth = 1)

IsPrefix(s, t) == Len(s) <= Len(t) /\ SubSeq(t, 1, Len(s)) = s

\* C5: interpret executes the statements in program order, each one once and
\* to its end before the next starts; what a statement printed and bound
\* stays as it left it; only the last statement executed can have failed;
\* interpret returns Err exactly after a statement failed, executing none
\* after it, and Ok after all statements were executed without a failure.
InterpretStopsAtFirstError ==
    LET D == TopLevel
        last == D[Len(D)]
    IN  /\ \A j \in 1..Len(D) :
              /\ D[j].node = statements[(j + 1) \div 2]
              /\ D[j].ev = IF j % 2 = 1 THEN "enter" ELSE "exit"
              /\ (j % 2 = 0 /\ j < Len(D)) => D[j].res.tag = "Ok"
              /\ j > 1 => IsPrefix(D[j - 1].out, D[j].out)
              /\ (j % 2 = 1 /\ j > 1) =>
                    /\ D[j].heap = D[j - 1].heap
                    /\ D[j].env = D[j - 1].env
                    /\ D[j].out = D[j - 1].out
        /\ result = "Err" =>
              /\ Len(D) > 0
              /\ last.ev = "exit"
              /\ last.res = Err
              /\ Len(D) = 2 * index
              /\ heap = last.heap
              /\ output = last.out
        /\ result = "Ok" =>
              /\ Len(D) = 2 * Len(statements)
              /\ \A j \in 1..Len(D) : D[j].ev = "exit" => D[j].res.tag = "Ok"
              /\ Len(D) > 0 => heap = last.heap /\ output = last.out
        /\ result # "running" => has_error = (result = "Err")

\* interpret has returned Err before the end of the program, after statements
\* that printed and that bound a variable.
FailedBeforeTheEnd ==
    /\ result = "Err"
    /\ index < Len(statements)
    /\ output # <<>>
    /\ DOMAIN heap[1].values # {}

\* C6: a Binary expression evaluates its right operand to the end before it
\* starts on its left operand; so, after both operands assigned the same
\* variable, the variable holds what the left operand assigned.
BinaryRightThenLeft ==
    \A k \in Exits("Binary") :
        LET e == log[k]
            S == Inner(k)
        IN  /\ Len(S) >= 2
            /\ S[1].ev = "enter" /\ S[1].node = e.node.right
            /\ S[2].ev = "exit" /\ S[2].node = e.node.right
            /\ S[2].res.tag = "Ok" =>
                  /\ Len(S) = 4
                  /\ S[3].ev = "enter" /\ S[3].node = e.node.left
                  /\ S[4].ev = "exit" /\ S[4].node = e.node.left
                  /\ ( /\ e.node.left.type = "Assignment"
                       /\ e.node.right.type = "Assignment"
                       /\ e.node.left.name = e.node.right.name
                       /\ S[4].res.tag = "Ok" ) =>
                        Resolve(e.heap, e.env, e.node.left.name.lexeme)
                            = {S[4].res.value}

\* A Binary expression whose operands assigned different values to the same
\* variable has been evaluated.
BothOperandsAssigned ==
    \E k \in Exits("Binary") :
        LET e == log[k]
            S == Inner(k)
        IN  /\ e.node.left.type = "Assignment"
            /\ e.node.right.type = "Assignment"
            /\ e.node.left.name = e.node.right.name
            /\ e.node.left.value # e.node.right.value
            /\ e.res.tag = "Ok"
            /\ S[2].res.value # S[4].res.value
            /\ Resolve(e.heap, e.env, e.node.left.name.lexeme) = {S[4].res.value}

\* Truthiness as the specification states it: Nil and Bool(false) are false
\* and every other value is true.
Truthy(v) == ~(v = NilV \/ v = BoolV(FALSE))

\* C7: a Logical expression with a truthy left operand of `or`, or a falsy
\* left operand of `and`, gives the left operand's value itself and does not
\* evaluate the right operand; in every other case it evaluates the right
\* operand and gives exactly its result.
LogicalShortCircuits ==
    \A k \in Exits("Logical") :
        LET e == log[k]
            S == Inner(k)
            left == S[2]
            kind == e.node.operator.kind
        IN  /\ S[1].ev = "enter" /\ S[1].node = e.node.left
            /\ left.ev = "exit"
            /\ kind \in {"Or", "And"}
            /\ left.res.tag = "Ok" =>
                  IF \/ (kind = "Or" /\ Truthy(left.res.value))
                     \/ (kind = "And" /\ ~Truthy(left.res.value))
                  THEN /\ Len(S) = 2
                       /\ e.res = Ok(left.res.value)
                       /\ e.heap = left.heap
                       /\ e.out = left.out
                       /\ e.errs = left.errs
                  ELSE /\ Len(S) = 4
                       /\ S[3].ev = "enter" /\ S[3].node = e.node.right
                       /\ S[4].ev = "exit"
                       /\ e.res = S[4].res

\* A Logical expression gave a left operand that is no Bool as its value and
\* skipped a right operand that assigns: nothing was assigned.
ShortCircuitSkipped ==
    \E k \in Exits("Logical") :
        /\ Len(Inner(k)) = 2
        /\ log[k].res.tag = "Ok"
        /\ log[k].res.value.kind \in {"Nil", "Number", "String"}
        /\ log[k].node.right.type = "Assignment"
        /\ log[k].heap = Entry(k).heap

\* The operands of the Binary expression that exits at log[k]; both were
\* evaluated when Evaluated(k).
Evaluated(k) ==
    /\ Len(Inner(k)) = 4
    /\ Inner(k)[2].res.tag = "Ok"
    /\ Inner(k)[4].res.tag = "Ok"
RightOperand(k) == Inner(k)[2].res.value
LeftOperand(k) == Inner(k)[4].res.value

NumbersMessage(operator) ==
    "[line " \o ToString(operator.line) \o "] Error: Operands must be numbers."
PlusMessage(operator) ==
    "[line " \o ToString(operator.line)
        \o "] Error: Operands must be two numbers or two strings."

\* C8: `-`, `/`, `*`, `>`, `>=`, `<`, `<=` succeed exactly when both operand
\* values are Numbers (with a Number, for the comparisons a Bool) and fail
\* otherwise with "Operands must be numbers."; `+` succeeds exactly on two
\* Numbers (their sum) and on two Strings (the left text followed by the
\* right text) and fails otherwise with "Operands must be two numbers or two
\* strings.".
BinaryTypeChecking ==
    \A k \in Exits("Binary") :
        Evaluated(k) =>
            LET e == log[k]
                l == LeftOperand(k)
                r == RightOperand(k)
                op == e.node.operator
                before == Inner(k)[4].errs
                numbers == l.kind = "Number" /\ r.kind = "Number"
                strings == l.kind = "String" /\ r.kind = "String"
            IN  /\ op.kind \in {"Minus", "Slash", "Star", "Greater", "GreaterEqual",
                                "Less", "LessEqual"} =>
                      IF numbers
                      THEN /\ e.res.tag = "Ok"
                           /\ e.errs = before
                           /\ e.res.value.kind =
                                IF op.kind \in {"Minus", "Slash", "Star"}
                                THEN "Number" ELSE "Bool"
                      ELSE /\ e.res = Err
                           /\ e.errs = Append(before, NumbersMessage(op))
                /\ op.kind = "Plus" =>
                      IF numbers
                      THEN /\ e.res.tag = "Ok"
                           /\ e.errs = before
                           /\ e.res.value.kind = "Number"
                           /\ (l.d = 1 /\ r.d = 1) => e.res.value = Num(l.n + r.n)
                      ELSE IF strings
                      THEN /\ e.res = Ok(StringV(l.s \o r.s))
                           /\ e.errs = before
                      ELSE /\ e.res = Err
                           /\ e.errs = Append(before, PlusMessage(op))
                /\ e.heap = Inner(k)[4].heap
                /\ e.out = Inner(k)[4].out

\* `+` on a Number and a String has failed.
PlusOnNumberAndString ==
    \E k \in Exits("Binary") :
        /\ Evaluated(k)
        /\ log[k].node.operator.kind = "Plus"
        /\ LeftOperand(k).kind = "Number"
        /\ RightOperand(k).kind = "String"
        /\ log[k].res = Err

\* What `a == b` and `a != b` evaluate to.
Equal(a, b) == binary_op(Tok("EqualEqual", "=="), a, b).res
Unequal(a, b) == binary_op(Tok("BangEqual", "!="), a, b).res

\* C9: on every pair of values `==` and `!=` evaluate without an error, to
\* Bools that are each other's negation; `a == b` is what `b == a` is; Nil
\* equals Nil and nothing else; values of different kinds are never equal.
EqualityLaws ==
    \A k \in Exits("Binary") :
        (Evaluated(k) /\ log[k].node.operator.kind \in {"EqualEqual", "BangEqual"}) =>
            LET e == log[k]
                l == LeftOperand(k)
                r == RightOperand(k)
            IN  /\ e.res = IF e.node.operator.kind = "EqualEqual"
                           THEN Equal(l, r) ELSE Unequal(l, r)
                /\ e.errs = Inner(k)[4].errs
                /\ Equal(l, r) \in {Ok(BoolV(TRUE)), Ok(BoolV(FALSE))}
                /\ Unequal(l, r) \in {Ok(BoolV(TRUE)), Ok(BoolV(FALSE))}
                /\ Equal(l, r).value.b = ~Unequal(l, r).value.b
                /\ Equal(l, r) = Equal(r, l)
                /\ (l = NilV \/ r = NilV) =>
                      (Equal(l, r).value.b <=> (l = NilV /\ r = NilV))
                /\ l.kind # r.kind => ~Equal(l, r).value.b

\* Nil was compared with false, and the answer was Bool(false).
NilComparedWithFalse ==
    \E k \in Exits("Binary") :
        /\ Evaluated(k)
        /\ log[k].node.operator.kind = "EqualEqual"
        /\ LeftOperand(k) = BoolV(FALSE)
        /\ RightOperand(k) = NilV
        /\ log[k].res = Ok(BoolV(FALSE))

\* C10: `!x` evaluates without an error to Bool(true) when x is Nil or
\* Bool(false) and to Bool(false) for every other value, the number 0 and the
\* empty string included; `!!x` evaluates to Bool(false) for Nil and
\* Bool(false) and to Bool(true) for every other value.
NotIsTruthiness ==
    \A k \in Exits("Unary") :
        LET e == log[k]
            x == log[k - 1]
        IN  (e.node.operator.kind = "Bang" /\ x.res.tag = "Ok") =>
                /\ x.ev = "exit" /\ x.node = e.node.right
                /\ e.res = Ok(BoolV(~Truthy(x.res.value)))
                /\ e.errs = x.errs
                /\ (e.node.right.type = "Unary" /\ e.node.right.operator.kind = "Bang") =>
                      LET y == log[k - 2]
                      IN  /\ y.ev = "exit" /\ y.node = e.node.right.right
                          /\ y.res.tag = "Ok"
                          /\ e.res = Ok(BoolV(Truthy(y.res.value)))

\* !!"" and !0 have been evaluated.
EmptyStringNegatedTwice ==
    \E k \in Exits("Unary") :
        /\ log[k].node = Unary(Bang, Unary(Bang, Literal(StringV(""))))
        /\ log[k].res = Ok(BoolV(TRUE))
        /\ log[k - 1].node = Unary(Bang, Literal(StringV("")))
        /\ log[k - 1].res = Ok(BoolV(FALSE))

\* ------------------------------------------------------------------ scanner properties

\* scan_tokens has returned.
ScanReturned == scanner # <<>> /\ process.pc # "scan_tokens"

\* C11: the token sequence scan_tokens returns, for a source with or without
\* scan errors, has an EOF token as its last token and no other EOF token.
EndsWithOneEOF ==
    ScanReturned =>
        LET t == scanner.tokens
        IN  /\ t # <<>>
            /\ t[Len(t)].kind = "EOF"
            /\ Cardinality({i \in DOMAIN t : t[i].kind = "EOF"}) = 1

\* scan_tokens has returned tokens of a source with a scan error.
ScannedWithError ==
    /\ ScanReturned
    /\ scanner.has_errors
    /\ Len(scanner.tokens) >= 3

\* The characters scan_token has an arm for.
Expected(c) ==
    \/ c \in DOMAIN Punctuation
    \/ c \in {"!", "=", "<", ">", "/", " ", "\r", "\t", "\n", "\"", "_"}
    \/ is_digit(c)
    \/ is_alphabetic(c)

\* C12: a scan_token that meets an unexpected character, or a string without
\* its closing quote, sets has_errors, adds no token and leaves the scanner
\* after the offending text, with the loop of scan_tokens still running; every
\* other scan_token leaves has_errors as it was, so has_errors is never reset;
\* the tokens are only added to; and when scan_tokens has returned, the EOF
\* token is there and has_errors tells whether an error was reported.
ScanErrorsDoNotAbort ==
    /\ [][(process.pc = "scan_tokens" /\ ~Scanner_is_at_end(scanner)) =>
            LET c == scanner.source[scanner.current + 1]
                unexpected == ~Expected(c)
                unterminated ==
                    /\ c = "\""
                    /\ \A i \in (scanner.current + 2)..Len(scanner.source) :
                            scanner.source[i] # "\""
            IN  /\ process'.pc = "scan_tokens"
                /\ scanner.has_errors => scanner'.has_errors
                /\ SubSeq(scanner'.tokens, 1, Len(scanner.tokens)) = scanner.tokens
                /\ unexpected =>
                      /\ scanner' = [scanner EXCEPT !.start = scanner.current,
                                                    !.current = @ + 1,
                                                    !.has_errors = TRUE]
                      /\ errors' = Append(errors,
                            "[line " \o ToString(scanner.line)
                                \o "] Error: Unexpected character: " \o c)
                /\ unterminated =>
                      /\ scanner'.has_errors
                      /\ scanner'.tokens = scanner.tokens
                      /\ scanner'.current = Len(scanner.source)
                      /\ errors' = Append(errors,
                            "[line " \o ToString(scanner'.line)
                                \o "] Error: Unterminated string.")
                /\ ~(unexpected \/ unterminated) =>
                      /\ scanner'.has_errors = scanner.has_errors
                      /\ errors' = errors
         ]_vars
    /\ [](ScanReturned =>
            /\ scanner.tokens[Len(scanner.tokens)].kind = "EOF"
            /\ scanner.has_errors <=> errors # <<>>)

\* "@1@a" has been scanned: two errors, and the tokens of 1 and a.
TokensAfterUnexpected ==
    /\ ScanReturned
    /\ scanner.source = <<"@", "1", "@", "a">>
    /\ scanner.has_errors
    /\ [i \in DOMAIN scanner.tokens |-> scanner.tokens[i].kind]
            = <<"Number", "Identifier", "EOF">>
    /\ Len(errors) = 2

\* ------------------------------------------------------------------ parser properties

\* The method on top of the call stack of the parser is fn at pc.
Running(fn, pc) ==
    /\ parser # <<>>
    /\ parser.calls # <<>>
    /\ this_frame(parser).fn = fn
    /\ this_frame(parser).pc = pc

\* parse has returned.
ParseReturned == parser # <<>> /\ parser.calls = <<>>

\* The kinds of the tokens parse was given, without the EOF.
Kinds == [i \in 1..(Len(parser.tokens) - 1) |-> parser.tokens[i].kind]

\* C13 as stated: for_statement returns, for the initializer, condition,
\* increment (each possibly absent) and body it has parsed, a Block of the
\* initializer and a While whose body is a Block of body and the increment,
\* with a Block in both places whether or not a clause is there.
ForBlockWhileBlock ==
    [][(Running("for_statement", 4) /\ parser.ret.tag = "Ok") =>
            LET v == this_frame(parser).v
                incr == IF v.increment = <<>> THEN <<>>
                        ELSE <<ExpressionS(v.increment[1])>>
            IN  parser'.ret =
                    Ok(BlockS(v.initializer \o
                              <<WhileS(v.condition,
                                       BlockS(<<parser.ret.value>> \o incr))>>))
      ]_vars

\* C13, amended: for_statement returns a While of the condition, which is
\* Literal(true) when the condition is absent; the body of the While is a
\* Block of body and the increment as an expression statement when there is
\* an increment, and body itself when there is none; and the While is put,
\* after the initializer, in a Block when there is an initializer, and is
\* returned itself when there is none.
ForLowered ==
    /\ [][(Running("for_statement", 4) /\ parser.ret.tag = "Ok") =>
            LET v == this_frame(parser).v
                body == parser.ret.value
                loop == WhileS(v.condition,
                               IF v.increment = <<>> THEN body
                               ELSE BlockS(<<body, ExpressionS(v.increment[1])>>))
            IN  parser'.ret = Ok(IF v.initializer = <<>> THEN loop
                                 ELSE BlockS(<<v.initializer[1], loop>>))
        ]_vars
    /\ [](/\ ParseReturned
          /\ parser.result.tag = "Ok"
          /\ Len(Kinds) >= 4
          /\ SubSeq(Kinds, 1, 4) = <<"For", "LeftParenthesis", "Semicolon", "Semicolon">>
          => parser.result.value[1].condition = Literal(BoolV(TRUE)))

\* for (;;) print i; has been parsed to a While whose body is the Print.
ForWithoutClauses ==
    /\ ParseReturned
    /\ Kinds = <<"For", "LeftParenthesis", "Semicolon", "Semicolon",
                 "RightParenthesis", "Print", "Identifier", "Semicolon">>
    /\ parser.result.tag = "Ok"
    /\ parser.result.value[1].type = "While"
    /\ parser.result.value[1].body.type = "Print"

\* The parser is at position i after a semicolon, in front of a token that
\* starts a statement, or at the end.
StopAt(i) ==
    \/ parser.tokens[i + 1].kind \in
            {"EOF", "Class", "Fun", "Var", "For", "If", "While", "Print", "Return"}
    \/ i > 0 /\ parser.tokens[i].kind = "Semicolon"

\* The first position from a position on where StopAt holds.
FirstStop(from) ==
    CHOOSE i \in from..(Len(parser.tokens) - 1) :
        StopAt(i) /\ \A j \in from..(i - 1) : ~StopAt(j)

\* C14 as stated: when a declaration fails, the parser goes on at the first
\* position, from the one where the error was detected on, that is after a
\* semicolon, in front of a token that starts a statement, or at the end.
ResumesFromError ==
    [][(Running("declaration", 1) /\ parser.ret.tag = "Err") =>
            parser'.current = FirstStop(parser.detected)]_vars

\* C14, amended: when a declaration fails, the token at the position the
\* parser has reached is discarded, whatever it is, unless it is the EOF
\* token; the parser goes on at the first position after it that is after a
\* semicolon, in front of a token that starts a statement, or at the end.
ResumesAfterOneToken ==
    [][(Running("declaration", 1) /\ parser.ret.tag = "Err") =>
            LET from == IF parser.tokens[parser.current + 1].kind = "EOF"
                        THEN parser.current ELSE parser.current + 1
            IN  /\ parser'.current = FirstStop(from)
                /\ parser'.ret.tag = "Err"
                /\ parser'.stderr = parser.stderr]_vars

\* a print a ; has been parsed: the ; of the first statement is missing, and
\* the print statement that begins where the error was detected is discarded.
PrintDiscarded ==
    /\ ParseReturned
    /\ Kinds = <<"Identifier", "Print", "Identifier", "Semicolon">>
    /\ parser.has_error
    /\ parser.statements = <<>>
    /\ Len(parser.stderr) = 1

\* C15: parse returns Err exactly when a declaration has failed, which is
\* when an error has been reported, and returns no statements then;
\* otherwise it returns, in the order it parsed them, the statements of the
\* declarations; it takes the tokens from left to right, goes on with the
\* next declaration when one has failed, and returns only at the EOF token.
ParseResult ==
    /\ [][/\ (parser # <<>> /\ parser' # <<>>) => parser'.current >= parser.current
          /\ Running("parse", 1) =>
                /\ parser'.calls # <<>>
                /\ parser'.statements =
                        IF parser.ret.tag = "Ok"
                        THEN Append(parser.statements, parser.ret.value)
                        ELSE parser.statements
                /\ parser.ret.tag = "Err" => parser.stderr # <<>>
         ]_vars
    /\ [](ParseReturned =>
            /\ parser.tokens[parser.current + 1].kind = "EOF"
            /\ parser.result.tag = "Err" <=> parser.stderr # <<>>
            /\ parser.result.tag = "Err" => parser.result = Err
            /\ parser.result.tag # "Err" => parser.result = Ok(parser.statements))

\* ) ; ) ; has been parsed: both errors are reported; and a ; ) ; has been
\* parsed: the statement before the error is not returned.
TwoErrors ==
    /\ ParseReturned
    /\ parser.result.tag = "Err"
    /\ \/ /\ Kinds = <<"RightParenthesis", "Semicolon", "RightParenthesis", "Semicolon">>
          /\ Len(parser.stderr) = 2
       \/ /\ Kinds = <<"Identifier", "Semicolon", "RightParenthesis", "Semicolon">>
          /\ Len(parser.statements) = 1

\* C16: assignment, with an expression parsed by or in front of an =, has the
\* right-hand side parsed by assignment; when that has given a value, it
\* returns an Assignment of the value to the name if the expression on the
\* left is a Variable, and for every other expression on the left it reports
\* "Invalid assignment target." and returns Err; a = b = c is the Assignment
\* to a of the Assignment to b of c.
AssignmentTarget ==
    /\ [][/\ (/\ Running("assignment", 1)
              /\ parser.ret.tag = "Ok"
              /\ parser.tokens[parser.current + 1].kind = "Equal") =>
                /\ parser'.current = parser.current + 1
                /\ Len(parser'.calls) > Len(parser.calls)
                /\ parser'.calls[Len(parser.calls) + 1].fn = "assignment"
          /\ (Running("assignment", 2) /\ parser.ret.tag = "Ok") =>
                LET left == this_frame(parser).v.expr
                IN  IF left.type = "Variable"
                    THEN /\ parser'.ret = Ok([type |-> "Assignment", name |-> left.name,
                                              value |-> parser.ret.value])
                         /\ parser'.stderr = parser.stderr
                    ELSE /\ parser'.ret.tag = "Err"
                         /\ Len(parser'.stderr) = Len(parser.stderr) + 1
                         /\ EndsWith(parser'.stderr[Len(parser'.stderr)],
                                     "Invalid assignment target.")
         ]_vars
    /\ [](/\ ParseReturned
          /\ Kinds = <<"Identifier", "Equal", "Identifier", "Equal", "Identifier",
                       "Semicolon">>
          => /\ parser.result.tag = "Ok"
             /\ LET e == parser.result.value[1].expression
                IN  /\ e.type = "Assignment" /\ e.name = parser.tokens[1]
                    /\ e.value.type = "Assignment" /\ e.value.name = parser.tokens[3]
                    /\ e.value.value.type = "Variable"
                    /\ e.value.value.name = parser.tokens[5])

\* ( a ) = 1 ; has been parsed: the grouping is not a target.
GroupingNotATarget ==
    /\ ParseReturned
    /\ Kinds = <<"LeftParenthesis", "Identifier", "RightParenthesis", "Equal",
                 "Number", "Semicolon">>
    /\ parser.result.tag = "Err"
    /\ Len(parser.stderr) = 1
    /\ EndsWith(parser.stderr[1], "Invalid assignment target.")

\* The messages of the parser.
Messages ==
    {"Expect '(' after 'for'.", "Expect ';' after loop condition.",
     "Expect ')' after for clauses.", "Expect '(' after 'if'.",
     "Expect ')' after if condition.", "Expect ';' after value.",
     "Expect variable name.", "Expect ';' after variable declaration.",
     "Expect '(' after 'while'.", "Expect ')' after condition.",
     "Expect ';' after expression.", "Expect '}' after block.",
     "Expect '.' after 'super'.", "Expect superclass method name.",
     "Expect ')' after expression.", "Expect expression.",
     "Invalid assignment target."}

\* The text of a diagnostic at a token.
ErrorAt(token, message) ==
    IF token.kind = "EOF"
    THEN "[line " \o ToString(token.line) \o "] Error at end " \o message
    ELSE "[line " \o ToString(token.line) \o "] Error at '" \o token.lexeme
            \o "': " \o message

\* C17: a line the parser writes is, for one of its messages, the text of a
\* diagnostic at the token the parser was at when it detected the error (for
\* "Invalid assignment target.", at a token of the assignment).
DiagnosticText ==
    [][(/\ parser # <<>> /\ parser' # <<>>
        /\ Len(parser'.stderr) > Len(parser.stderr)) =>
            LET line == parser'.stderr[Len(parser'.stderr)]
                at == parser.tokens[parser'.detected + 1]
            IN  \E message \in Messages :
                    IF message = "Invalid assignment target."
                    THEN \E i \in DOMAIN parser.tokens :
                            line = ErrorAt(parser.tokens[i], message)
                    ELSE line = ErrorAt(at, message)]_vars

\* ------------------------------------------------------------------ printer properties

\* The second run of parse, on what the first run printed, has ended.
Reparsed == process # <<>> /\ process.run = 2 /\ process.pc = "exit"

\* C18 as stated: whenever the first run printed an expression (it is then
\* made of Literal, Grouping, Unary and Binary nodes only), the run on the
\* printed text succeeds and prints the same text.
PrintIdempotent ==
    Reparsed => /\ process.exit = 0
                /\ Len(output) = 2
                /\ output[2] = output[1]

\* C18: printing is idempotent through re-parsing when the expression of
\* the source is one literal that is a number, true, false or nil: the run
\* on the printed text succeeds and prints the same text.
PrintIdempotentOnLiterals ==
    (/\ Reparsed
     /\ process.first[1].type = "Literal"
     /\ process.first[1].value.kind # "String")
        => /\ process.exit = 0
           /\ Len(output) = 2
           /\ output[2] = output[1]

\* nil and a number with a fraction have been printed twice.
LiteralReprinted ==
    /\ Reparsed
    /\ process.first[1].type = "Literal"
    /\ output \in {<<"nil", "nil">>, <<"1.5", "1.5">>}

\* ------------------------------------------------------------------ process properties

\* The process has ended.
Exited == process # <<>> /\ process.pc = "exit"

\* C19: when interpret or interpret_expression reaches a reserved node (This
\* and Super from the parser, or Call, Get, Set, Function, Return, Class),
\* the call ends with a runtime error: the process exits with code 70.
ReservedIsRuntimeError ==
    (Exited /\ stack # <<>> /\ Top.node.type \in Reserved) => process.exit = 70

\* C20: error kinds map to exit codes, for each of the commands tokenize,
\* parse, evaluate and run: a process whose source had a scan error exits
\* with 65 (run and evaluate included, never 0); one whose parse failed
\* exits with 65; one whose evaluation or execution ended with a runtime
\* error exits with 70.
ErrorKindsExit ==
    (Exited /\ process.command \in {"tokenize", "parse", "evaluate", "run"}
            /\ scanner # <<>>)
        => IF scanner.has_errors THEN process.exit = 65
           ELSE IF parser # <<>> /\ parser.result.tag = "Err" THEN process.exit = 65
           ELSE IF result = "Err" \/ (result = "expression" /\ ret.tag = "Err")
           THEN process.exit = 70
           ELSE TRUE

\* ------------------------------------------------------------------ interpreter properties, continued

\* The entries and exits of the calls made so far by the frame stack[d],
\* which is still running, in order.
InnerOf(d) ==
    SelectSeq(SubSeq(log, stack[d].log0 + 1, Len(log)),
              LAMBDA e : e.depth = d + 1)

\* S is what a pre-tested loop on the While `node` calls: the condition, then
\* the body, then the condition, and so on, each to its end before the next;
\* a body only after its condition returned a truthy value; nothing after a
\* call that failed or a condition that returned a falsy value.
PreTested(S, node) ==
    \A j \in 1..Len(S) :
        LET nth == (j + 1) \div 2
            callee == IF nth % 2 = 1 THEN node.condition ELSE node.body
        IN  /\ S[j].node = callee
            /\ S[j].ev = IF j % 2 = 1 THEN "enter" ELSE "exit"
            /\ (j % 2 = 0 /\ j < Len(S)) =>
                  /\ S[j].res.tag = "Ok"
                  /\ nth % 2 = 1 => Truthy(S[j].res.value)

\* C21: While is a pre-tested loop: the condition is evaluated before every
\* execution of the body, the body once for each truthy value of the
\* condition; the loop returns Ok at the first falsy value of the condition
\* (without an execution of the body when that is the first value) and
\* returns the runtime error of the condition or of the body at once,
\* evaluating nothing after it.
WhilePreTested ==
    /\ \A d \in DOMAIN stack :
          stack[d].node.type = "While" => PreTested(InnerOf(d), stack[d].node)
    /\ \A k \in Exits("While") :
          LET S == Inner(k)
              last == S[Len(S)]
          IN  /\ PreTested(S, log[k].node)
              /\ Len(S) >= 2
              /\ last.ev = "exit"
              /\ IF last.res.tag = "Err" THEN log[k].res = Err
                 ELSE /\ last.node = log[k].node.condition
                      /\ (Len(S) \div 2) % 2 = 1
                      /\ ~Truthy(last.res.value)
                      /\ log[k].res = Ok(NilV)
              /\ log[k].errs = last.errs
              /\ log[k].out = last.out
              /\ log[k].heap = last.heap

\* A loop has ended at a falsy condition after two executions of its body.
LoopedTwice ==
    \E k \in Exits("While") :
        /\ Len(Inner(k)) = 10
        /\ log[k].res = Ok(NilV)
        /\ Len(log[k].out) = Len(Entry(k).out) + 2

\* ------------------------------------------------------------------ expression properties

\* The level of the grammar that makes the expression: assignment 0, or 1,
\* and 2, equality 3, comparison 4, term 5, factor 6, unary 7, primary 8.
Level(expr) ==
    CASE expr.type = "Assignment" -> 0
      [] expr.type = "Logical" -> (IF expr.operator.kind = "Or" THEN 1 ELSE 2)
      [] expr.type = "Binary" ->
            (CASE expr.operator.kind \in {"BangEqual", "EqualEqual"} -> 3
               [] expr.operator.kind \in {"Greater", "GreaterEqual", "Less",
                                          "LessEqual"} -> 4
               [] expr.operator.kind \in {"Minus", "Plus"} -> 5
               [] expr.operator.kind \in {"Slash", "Star"} -> 6)
      [] expr.type = "Unary" -> 7
      [] OTHER -> 8

\* The tree follows precedence and associativity: the left operand of a
\* binary or logical operator is of its level or a higher one, the right
\* operand of a higher one (the level associates to the left); the operand of
\* a unary operator is unary or primary; the value of an assignment and the
\* inside of a grouping are any expression.
RECURSIVE Nests(_)
Nests(expr) ==
    CASE expr.type \in {"Binary", "Logical"} ->
            /\ Level(expr.left) >= Level(expr)
            /\ Level(expr.right) > Level(expr)
            /\ Nests(expr.left)
            /\ Nests(expr.right)
      [] expr.type = "Unary" ->
            /\ expr.operator.kind \in {"Bang", "Minus"}
            /\ Level(expr.right) >= 7
            /\ Nests(expr.right)
      [] expr.type = "Assignment" -> Nests(expr.value)
      [] expr.type = "Grouping" -> Nests(expr.expr)
      [] OTHER -> TRUE

\* The text of the token of a literal (of the one-digit numbers and the
\* strings the sequences have).
LiteralLexeme(value) ==
    CASE value.kind = "Number" -> f64_to_string(value)
      [] value.kind = "String" -> "\"" \o value.s \o "\""
      [] value.kind = "Bool" -> (IF value.b THEN "true" ELSE "false")
      [] value.kind = "Nil" -> "nil"

\* The lexemes of the tokens the tree was made of, in source order.
RECURSIVE Yield(_)
Yield(expr) ==
    CASE expr.type \in {"Binary", "Logical"} ->
            Yield(expr.left) \o <<expr.operator.lexeme>> \o Yield(expr.right)
      [] expr.type = "Unary" -> <<expr.operator.lexeme>> \o Yield(expr.right)
      [] expr.type = "Assignment" -> <<expr.name.lexeme, "=">> \o Yield(expr.value)
      [] expr.type = "Grouping" -> <<"(">> \o Yield(expr.expr) \o <<")">>
      [] expr.type = "Literal" -> <<LiteralLexeme(expr.value)>>
      [] expr.type = "Variable" -> <<expr.name.lexeme>>
      [] expr.type = "This" -> <<"this">>
      [] expr.type = "Super" -> <<"super", ".", expr.method.lexeme>>

\* The lexemes of the tokens the parser has consumed.
Consumed == [i \in 1..parser.current |-> parser.tokens[i].lexeme]

\* The kinds of the binary, logical and assignment operators.
OperatorTokens ==
    {"Equal", "Or", "And", "BangEqual", "EqualEqual", "Greater", "GreaterEqual",
     "Less", "LessEqual", "Minus", "Plus", "Slash", "Star"}

\* parse_expression has returned the expression.
Parsed(expr) == ParseReturned /\ parser.result = Ok(expr)

\* C22: the tree parse_expression returns follows the precedence of the
\* grammar (assignment, or, and, equality, comparison, term, factor, unary,
\* primary, rising), the operators of a binary level associating to the left,
\* unary operators nesting to the right, parentheses making a Grouping: it is
\* the tree of that shape over the tokens consumed, which end where no
\* operator follows; so `(1 + 2) * -3` gives
\* Binary(Grouping(Binary(1,+,2)), *, Unary(-,3)).
PrecedenceAndAssociativity ==
    (ParseReturned /\ parser.result.tag = "Ok") =>
        /\ Nests(parser.result.value)
        /\ Yield(parser.result.value) = Consumed
        /\ Parser_peek(parser).kind \notin OperatorTokens
        /\ Consumed = <<"(", "1", "+", "2", ")", "*", "-", "3">> =>
              parser.result.value =
                  Binary(Grouping(Binary(Literal(Num(1)), Word("+", 3),
                                         Literal(Num(2)))),
                         Word("*", 6),
                         Unary(Word("-", 7), Literal(Num(3))))

\* a - b - c has been parsed, to Binary(Binary(a,-,b),-,c).
LeftAssociated ==
    Parsed(Binary(Binary([type |-> "Variable", name |-> Word("a", 1)], Word("-", 2),
                         [type |-> "Variable", name |-> Word("b", 3)]),
                  Word("-", 4),
                  [type |-> "Variable", name |-> Word("c", 5)]))

\* ------------------------------------------------------------------ declaration properties

\* C23: a Var statement evaluates its initializer to the end before the name
\* is defined, in the scope current at the statement: `var a = a;` reads what
\* `a` resolves to before the statement (in a block: the binding of an
\* enclosing scope) and then binds `a` in the current scope to that value; a
\* failing initializer leaves every binding as the initializer left it (as it
\* was, when the initializer is a variable); a declaration without an
\* initializer is parsed with the initializer Literal(Nil) and binds the name
\* to Nil; a name the scope binds already is bound anew, without an error.
VarEvaluatesThenDefines ==
    /\ \A k \in Exits("Var") :
          LET e == log[k]
              b == Entry(k)
              S == Inner(k)
              init == e.node.initializer
              n == e.node.name.lexeme
          IN  /\ Len(S) = 2
              /\ S[1].ev = "enter" /\ S[1].node = init /\ S[1].heap = b.heap
              /\ S[2].ev = "exit" /\ S[2].node = init
              /\ e.env = b.env
              /\ IF S[2].res.tag = "Err"
                 THEN /\ e.res = Err
                      /\ e.heap = S[2].heap
                      /\ e.errs = S[2].errs
                      /\ init.type \in {"Variable", "Literal", "Unary"} => e.heap = b.heap
                 ELSE /\ e.res = Ok(NilV)
                      /\ e.errs = b.errs
                      /\ e.heap[e.env].values[n] = S[2].res.value
                      /\ init.type = "Variable" =>
                            Resolve(b.heap, b.env, init.name.lexeme) = {S[2].res.value}
                      /\ init = Literal(NilV) => e.heap[e.env].values[n] = NilV
    /\ (Running("declaration", 1) /\ parser.ret.tag = "Ok") =>
          LET stmt == parser.ret.value
          IN  ( /\ stmt.type = "Var"
                /\ parser.current >= 3
                /\ parser.tokens[parser.current - 2].kind = "Var" )
                    => stmt.initializer = Literal(NilV)

\* In a block that did not bind a yet, `var a = a;` has bound the inner a to
\* the value 1 of the outer one.
VarFromEnclosingScope ==
    \E k \in Exits("Var") :
        LET e == log[k]
            b == Entry(k)
            n == e.node.name.lexeme
        IN  /\ e.res.tag = "Ok"
            /\ e.node.initializer.type = "Variable"
            /\ e.node.initializer.name.lexeme = n
            /\ n \notin DOMAIN b.heap[b.env].values
            /\ b.heap[b.env].enclosing # None
            /\ e.heap[e.env].values[n] = Num(1)

\* ------------------------------------------------------------------ termination

\* The parser is within the bounds of its tokens: current is at most the index
\* of the EOF token, no index was out of bounds (previous() with current 0),
\* and when an iteration of the loop of parse ends, by a declaration or by a
\* failed one and synchronize, current is beyond where the iteration began.
ParserInBounds ==
    parser # <<>> =>
        /\ parser.current \in 0..(Len(parser.tokens) - 1)
        /\ parser.tokens[Len(parser.tokens)].kind = "EOF"
        /\ ~parser.panicked
        /\ Running("parse", 1) => parser.current > this_frame(parser).v.start

\* A method that is running takes its next step (the guard of parse), and
\* the steps taken are at most StepsPerToken for every token: the run ends.
Terminates ==
    parser # <<>> =>
        /\ (parser.calls # <<>> /\ ~parser.panicked) => ENABLED parse
        /\ parser.steps <= StepsPerToken * Len(parser.tokens)

\* C24: on every token sequence that ends with EOF, parse and
\* parse_expression terminate; every iteration of the loop of parse advances
\* current by at least one token; current never exceeds the index of the EOF
\* token; previous() is never evaluated while current is 0.
ParsingTerminatesInBounds == ParserInBounds /\ Terminates

\* parse has returned Err, and its last error was reported with the parser at
\* the EOF token, where advance does nothing.
FailedAtEnd ==
    /\ ParseReturned
    /\ parser.result.tag = "Err"
    /\ parser.stderr # <<>>
    /\ parser.detected = Len(parser.tokens) - 1
    /\ parser.current = Len(parser.tokens) - 1


\* ------------------------------------------------------- environment chain
\* The addresses met from the address id through `enclosing`, at most n of
\* them: a walk that a cycle could not make endless.
RECURSIVE Walk(_, _, _)
Walk(h, id, n) ==
    IF id = None \/ n = 0 \/ id \notin DOMAIN h THEN <<>>
    ELSE <<id>> \o Walk(h, h[id].enclosing, n - 1)

\* The address of the environment Interpreter::new creates.
Global == 1

\* The frames of execute_block that have swapped their environment in.
BlocksExecuting ==
    {d \in DOMAIN stack : stack[d].node.type = "Block" /\ stack[d].pc >= 1}

\* C25: during interpret the chain from the current environment through
\* `enclosing` is finite and acyclic, ends at the global environment that new
\* created, and has length 1 plus the number of Blocks being executed; once
\* interpret has returned, Ok or Err, the current environment is the global.
EnvironmentChain ==
    LET reach == Walk(heap, environment, Cardinality(DOMAIN heap) + 1)
    IN  /\ environment \in DOMAIN heap
        /\ Len(reach) <= Cardinality(DOMAIN heap)
        /\ \A i, j \in DOMAIN reach : reach[i] = reach[j] => i = j
        /\ heap[reach[Len(reach)]].enclosing = None
        /\ reach[Len(reach)] = Global
        /\ Len(reach) = 1 + Cardinality(BlocksExecuting)
        /\ result # "running" => environment = Global

\* A block in a block is running with both environments on the chain.
TwoBlocksDeep ==
    /\ Cardinality(BlocksExecuting) = 2
    /\ Len(Chain(heap, environment)) = 3
    /\ result = "running"


\* ------------------------------------------------- errors inside a Binary
\* C26: when the right operand of a Binary expression fails, the left operand
\* is never evaluated: the expression fails with the memory, stdout and stderr
\* as the right operand left them.  When the right operand succeeds the left
\* one is evaluated whatever kind of value the right one gave; when both
\* succeed the check of the operand kinds comes after them and touches no
\* environment, so what the operands assigned stays, also when the operator
\* then fails with a type error.
BinaryErrorOrdering ==
    \A k \in Exits("Binary") :
        LET e == log[k]
            S == Inner(k)
            right == e.node.right
            left == e.node.left
        IN  /\ S[2].node = right
            /\ S[2].res.tag = "Err" =>
                  /\ Len(S) = 2
                  /\ e.res.tag = "Err"
                  /\ e.heap = S[2].heap /\ e.w = S[2].w
                  /\ e.out = S[2].out /\ e.errs = S[2].errs
            /\ S[2].res.tag = "Ok" =>
                  /\ Len(S) = 4
                  /\ S[3].ev = "enter" /\ S[3].node = left
                  /\ S[3].heap = S[2].heap
                  /\ S[4].ev = "exit" /\ S[4].node = left
            /\ (Len(S) = 4 /\ S[4].res.tag = "Ok") =>
                  /\ e.heap = S[4].heap /\ e.w = S[4].w /\ e.env = S[4].env
                  /\ e.out = S[4].out
                  /\ e.res.tag = "Err" => Len(e.errs) = Len(S[4].errs) + 1
                  /\ e.res.tag = "Ok" => e.errs = S[4].errs
                  /\ left.type = "Assignment" =>
                        Resolve(e.heap, e.env, left.name.lexeme) = {S[4].res.value}
                  /\ ( /\ right.type = "Assignment"
                       /\ left.type \in {"Literal", "Variable"} ) =>
                        Resolve(e.heap, e.env, right.name.lexeme) = {S[2].res.value}

\* "a" - (a = 1) has failed on the kinds of its operands, and a, 0 before, is 1.
TypeErrorKeepsAssignment ==
    \E k \in Exits("Binary") :
        LET e == log[k]
            S == Inner(k)
        IN  /\ e.node.operator.kind = "Minus"
            /\ e.node.left = Literal(StringV("a"))
            /\ e.node.right = Assignment("a", Literal(Num(1)))
            /\ e.res.tag = "Err"
            /\ Len(S) = 4 /\ S[4].res.tag = "Ok"
            /\ Resolve(Entry(k).heap, Entry(k).env, "a") = {Num(0)}
            /\ Resolve(e.heap, e.env, "a") = {Num(1)}


\* ------------------------------------------------- the end of parse_expression
\* main has called parse_expression, for `parse` or `evaluate`, and it has
\* returned.
ExpressionReturned ==
    /\ process # <<>>
    /\ process.command \in {"parse", "evaluate"}
    /\ ParseReturned

\* The token the last error was reported at is inside an expression that is
\* not complete: it is the first token, or it follows an operator or `(`, or
\* a `(` before it is not closed, or an assignment before it has no target,
\* or it follows `super` or the `.` after it.
ErrorInside ==
    LET d == parser.detected
        kinds == [i \in 1..d |-> parser.tokens[i].kind]
        count(kind) == Cardinality({i \in 1..d : kinds[i] = kind})
    IN  \/ d = 0
        \/ kinds[d] \in OperatorTokens \cup {"LeftParenthesis", "Bang", "Super", "Dot"}
        \/ count("LeftParenthesis") > count("RightParenthesis")
        \/ count("Equal") > 0

\* C27: parse_expression parses one expression from the first token and
\* returns Ok where that expression ends, whatever token follows: the tokens
\* after it are not consumed and no error is reported for them, so `parse`
\* and `evaluate` do not exit with 65; it returns Err only for an error
\* inside the expression.  On `1 2` it returns the literal 1, `parse` prints
\* it and `evaluate` prints its value, both exiting with 0.
ExpressionEndsParse ==
    ExpressionReturned =>
        /\ parser.result.tag = "Ok" =>
              /\ Yield(parser.result.value) = Consumed
              /\ parser.stderr = <<>>
              /\ Exited => process.exit # 65
        /\ parser.result.tag = "Err" => parser.stderr # <<>> /\ ErrorInside
        /\ process.file_contents \in {"1 2", "1;"} =>
              /\ parser.result = Ok(Literal(Num(1)))
              /\ parser.current = 1
              /\ Exited =>
                    /\ process.exit = 0
                    /\ errors = <<>>
                    /\ output = IF process.command = "parse"
                                THEN <<AstPrinter_print(Literal(Num(1))).value>>
                                ELSE <<stringify(Num(1))>>

\* evaluate has printed the value of the expression and exited with 0, with
\* tokens before the EOF that the parser has not consumed.
TrailingTokensIgnored ==
    /\ ExpressionReturned
    /\ Exited
    /\ process.command = "evaluate"
    /\ process.exit = 0
    /\ parser.result.tag = "Ok"
    /\ parser.current < Len(parser.tokens) - 1
    /\ Len(output) = 1

====
